---- MODULE Spec2Model ----
(***************************************************************************)
(* ascii-breakout (src/main.c): the board, the ball resolver checkBall,    *)
(* destroyBlock, moveBall, movePaddle, generateBoard and the level / life  *)
(* / frame loops of play() and main().                                     *)
(*                                                                         *)
(* rand() is the only source of randomness.  The operators that draw a    *)
(* ball's or a life's values take the remainders as a parameter, and the   *)
(* actions choose them with \E.  The colour draws of generateBoard are     *)
(* left open: the board records for each Block tile the draw that coloured *)
(* it (drawnBlock), which covers every outcome of the draws at once.       *)
(* nb_getch() is the only input: the key is chosen with \E in Input.       *)
(***************************************************************************)
EXTENDS Integers, Sequences, FiniteSets, TLC

\* ------------------------------------------------------------ constants
WIDTH == 60
HEIGHT == 36
STARTING_LIVES == 5

\* Tile (enum); only equality of tiles matters to the game logic.
EMPTY == "EMPTY"
BALL == "BALL"
PADDLE == "PADDLE"
RED_BLOCK == "RED_BLOCK"
BLUE_BLOCK == "BLUE_BLOCK"
GREEN_BLOCK == "GREEN_BLOCK"

Cols == 0 .. (WIDTH - 1)
Rows == 0 .. (HEIGHT - 1)

\* The pairs generateBoard can colour, by their first cell: i = 3, 5, ...
\* < WIDTH - 3 and 3 <= j < maxBlockY <= HEIGHT (lines 280-282).
colourPairs ==
    {<<i, j>> : i \in {x \in 3 .. (WIDTH - 4) : (x - 3) % 2 = 0},
                j \in 3 .. (HEIGHT - 1)}

\* The values of rand() % 3 (line 284).
Remainders == 0 .. 2

\* Every outcome of the draws of one call of generateBoard: each pair
\* draws 0, 1 or 2 independently of the others.  rand() is seeded with the
\* time (main(), line 692), so a level can meet any of them.
Colourings == [colourPairs -> Remainders]

\* The tile written for rand() % 3 = c in generateBoard's switch.
blockTile(c) == IF c = 0 THEN RED_BLOCK ELSE IF c = 1 THEN BLUE_BLOCK ELSE GREEN_BLOCK

\* Where the program's board holds the Block tile that iteration (i, j) of
\* the level's call of generateBoard wrote, the board of the model holds
\* drawnBlock[<<i, j>>]: the Block tile in the colour that pair (i, j)
\* drew.  Under the outcome d of the draws it is the tile
\* blockTile(d[<<i, j>>]) (tileUnder), so a state of the model stands for
\* the program's states under every outcome of the draws, and two of these
\* tiles are of one colour under every outcome exactly if they are equal.
drawnBlock ==
    [c \in colourPairs |-> "BLOCK " \o ToString(c[1]) \o "," \o ToString(c[2])]

Blocks == {drawnBlock[c] : c \in colourPairs}

Tile == {EMPTY, BALL, PADDLE} \cup Blocks

\* The pair whose draw coloured the Block tile t.
drawOf == [t \in Blocks |-> CHOOSE c \in colourPairs : drawnBlock[c] = t]

\* The tile of the program's board for the tile t of the model's board
\* when the level's draws came out as d, a member of Colourings.
tileUnder(t, d) == IF t \in Blocks THEN blockTile(d[drawOf[t]]) ELSE t

\* The program's board for the board bd of the model under the draws d.
boardUnder(bd, d) == [x \in Cols |-> [y \in Rows |-> tileUnder(bd[x][y], d)]]

\* ------------------------------------------------------------ bounds
\* Frames and life starts simulated in one run of the model.
MaxTicks == 2

\* ------------------------------------------------------------ helpers
max(a, b) == IF a > b THEN a ELSE b

min(a, b) == IF a < b THEN a ELSE b

\* play(): const int maxBlockY
maxBlockYOf(level) == (HEIGHT \div 3) + min(level \div 2, HEIGHT \div 2)

\* play(): paddle.len
paddleLenOf(level) == max(20 - (2 * (level \div 3)), 10)

\* play(): paddle.y
paddleY == (11 * HEIGHT) \div 12

\* play(): the paddle at the start of a level and of every life
paddleStart(level) ==
    [x |-> (WIDTH - paddleLenOf(level)) \div 2, y |-> paddleY,
     len |-> paddleLenOf(level), direction |-> 0, lastDirection |-> 0,
     velocity |-> 4]

\* play(): the ball's start cell
ballStartX == WIDTH \div 2

ballStartY(level) == (maxBlockYOf(level) + paddleY) \div 2

\* The hand-outs with the levels 10 .. 19 put into the every-other-level
\* band: level 15 must tell this variant from the code.
bonusLivesByParityFrom10(level) ==
    IF level <= 1 THEN 0
    ELSE IF level < 10 THEN 2
    ELSE IF level % 2 = 0 /\ level < 40 THEN 1
    ELSE IF level % 4 = 0 /\ level < 60 THEN 1
    ELSE 0

\* play(): the extra lives handed out at the start of a level
bonusLives(level) ==
    IF level <= 1 THEN 0
    ELSE IF level < 10 THEN 2
    ELSE IF level < 20 THEN 1
    ELSE IF level % 2 = 0 /\ level < 40 THEN 1
    ELSE IF level % 4 = 0 /\ level < 60 THEN 1
    ELSE 0

\* The x at which the generation loop (i = 3; i < WIDTH - 3; i += 2) places
\* the pair that covers column x, or -1 when no pair covers it.
pairStart(x) ==
    IF x >= 3 /\ x % 2 = 1 /\ x < WIDTH - 3 THEN x
    ELSE IF x - 1 >= 3 /\ (x - 1) % 2 = 1 /\ x - 1 < WIDTH - 3 THEN x - 1
    ELSE -1

\* generateBoard with the row loop running to j <= maxBlockY: the lowest
\* row of blocks must tell this variant from the code.
generateBoardOneMoreRow(level, maxBlockY, paddle, ball) ==
    LET is == {i \in 3 .. (WIDTH - 4) : (i - 3) % 2 = 0}
        js == 3 .. maxBlockY
        cell(x, y) ==
            IF pairStart(x) # -1 /\ y \in js
                THEN drawnBlock[<<pairStart(x), y>>]
            ELSE IF x = ball.x /\ y = ball.y THEN BALL
            ELSE IF y = paddle.y /\ x >= paddle.x /\ x < paddle.x + paddle.len
                THEN PADDLE
            ELSE EMPTY
    IN  [board |-> [x \in Cols |-> [y \in Rows |-> cell(x, y)]],
         blocks |-> Cardinality(is) * Cardinality(js)]

\* generateBoard: memset to EMPTY, the paddle, the ball, then the block
\* pairs (later writes win).  Iteration (i, j) writes the tile of its draw
\* rand() % 3 to (i, j) and (i + 1, j): drawnBlock[<<i, j>>].  Returns the
\* board and the number of pairs counted.
generateBoard(level, maxBlockY, paddle, ball) ==
    LET is == {i \in 3 .. (WIDTH - 4) : (i - 3) % 2 = 0}
        js == 3 .. (maxBlockY - 1)
        cell(x, y) ==
            IF pairStart(x) # -1 /\ y \in js
                THEN drawnBlock[<<pairStart(x), y>>]
            ELSE IF x = ball.x /\ y = ball.y THEN BALL
            ELSE IF y = paddle.y /\ x >= paddle.x /\ x < paddle.x + paddle.len
                THEN PADDLE
            ELSE EMPTY
    IN  [board |-> [x \in Cols |-> [y \in Rows |-> cell(x, y)]],
         blocks |-> Cardinality(is) * Cardinality(js)]

\* ------------------------------------------------------------ the board
inBoard(x, y) == x >= 0 /\ x < WIDTH /\ y >= 0 /\ y < HEIGHT

\* board[x][y] = t.  A write outside Tile board[WIDTH][HEIGHT] is undefined
\* behaviour in C: it never changes a cell of the board, and the callers
\* report it (see destroyBlock's oob).
setTile(bd, x, y, t) ==
    IF inBoard(x, y) THEN [bd EXCEPT ![x][y] = t] ELSE bd

\* moveBall without the write of EMPTY to the cell the ball leaves: the old
\* cell of a moved ball must tell this variant from the code.
moveBallKeepsOldTile(b, bd, x, y) ==
    LET b1 == [b EXCEPT !.x = x, !.y = y]
    IN  [ball |-> b1, board |-> setTile(bd, x, y, BALL)]

\* moveBall(ball, x, y)
moveBall(b, bd, x, y) ==
    LET b1 == [b EXCEPT !.x = x, !.y = y]
        bd1 == setTile(bd, b.x, b.y, EMPTY)
    IN  [ball |-> b1, board |-> setTile(bd1, x, y, BALL)]

\* The offset with the pairs taken to start at even x: the partner cell of
\* a struck block must tell this variant from the code.
blockOffsetEvenFirst(x) == IF x % 2 = 0 THEN 1 ELSE -1

\* destroyBlock: int offset = (x % 2 == 1) ? 1 : -1   (x >= 0 at every call)
blockOffset(x) == IF x % 2 = 1 THEN 1 ELSE -1

\* destroyBlock counting the two tiles of a pair (the counter drops by 2):
\* the count of pairs must tell this variant from the code.
destroyBlockCountsTiles(bd, x, y, bl, sc) ==
    LET offset == blockOffset(x)
        bd1 == setTile(bd, x, y, EMPTY)
        bd2 == setTile(bd1, x + offset, y, EMPTY)
    IN  [board |-> bd2, blocksLeft |-> bl - 2, score |-> sc + 10,
         oob |-> ~inBoard(x, y) \/ ~inBoard(x + offset, y)]

\* destroyBlock(x, y, blocksLeft, score).  oob: one of the two writes was
\* outside the board.
destroyBlock(bd, x, y, bl, sc) ==
    LET offset == blockOffset(x)
        bd1 == setTile(bd, x, y, EMPTY)
        bd2 == setTile(bd1, x + offset, y, EMPTY)
    IN  [board |-> bd2, blocksLeft |-> bl - 1, score |-> sc + 10,
         oob |-> ~inBoard(x, y) \/ ~inBoard(x + offset, y)]

\* ------------------------------------------------------------ checkBall
\* The candidate cell (lines 145-154).
nextX(b, fr) == IF fr % b.xVelocity = 0 THEN b.x + b.xDirection ELSE b.x

nextY(b, fr) == IF fr % b.yVelocity = 0 THEN b.y + b.yDirection ELSE b.y

\* The branches with the side walls tested before the bottom of the field:
\* the exit of the ball must tell this variant from the code.
ballBranchSideFirst(b, bd, fr) ==
    LET nx == nextX(b, fr)
        ny == nextY(b, fr)
    IN  IF nx = b.x /\ ny = b.y THEN "still"
        ELSE IF nx < 0 \/ nx >= WIDTH THEN "side"
        ELSE IF ny >= HEIGHT THEN "exit"
        ELSE IF ny >= 0 /\ bd[nx][ny] = EMPTY THEN "move"
        ELSE IF ny = 0 /\ (nx = 0 \/ nx = WIDTH - 1) THEN "corner"
        ELSE IF nx <= 0 THEN "side"
        ELSE IF ny <= 0 THEN "ceiling"
        ELSE IF bd[nx][ny] = PADDLE THEN "paddle"
        ELSE "block"

\* Which branch of checkBall is taken, by the code's tests in the code's
\* order (lines 157-194).
ballBranch(b, bd, fr) ==
    LET nx == nextX(b, fr)
        ny == nextY(b, fr)
    IN  IF nx = b.x /\ ny = b.y THEN "still"
        ELSE IF ny >= HEIGHT THEN "exit"
        ELSE IF nx >= 0 /\ nx < WIDTH /\ ny >= 0 /\ bd[nx][ny] = EMPTY THEN "move"
        ELSE IF ny = 0 /\ (nx = 0 \/ nx = WIDTH - 1) THEN "corner"
        ELSE IF nx <= 0 \/ nx >= WIDTH THEN "side"
        ELSE IF ny <= 0 THEN "ceiling"
        ELSE IF bd[nx][ny] = PADDLE THEN "paddle"
        ELSE "block"

\* The remainders checkBall draws from rand(), in the order of the calls:
\* paddle hit: rand() % 2, rand() % 8, rand() % 8; block hit: rand() % 2,
\* rand() % 2.  Branches that do not call rand() draw nothing.
ballDraws(branch) ==
    IF branch = "paddle" THEN {<<a, v, w>> : a \in 0 .. 1, v \in 0 .. 7, w \in 0 .. 7}
    ELSE IF branch = "block" THEN {<<a, c>> : a \in 0 .. 1, c \in 0 .. 1}
    ELSE {<<>>}

\* checkBall(ball, blocksLeft, score, frame) on board bd with the draws rnd.
\* ret is the value returned; oob reports an access outside the board.
checkBall(b, bd, bl, sc, fr, rnd) ==
    LET nx == nextX(b, fr)
        ny == nextY(b, fr)
        branch == ballBranch(b, bd, fr)
        same == [ret |-> 1, ball |-> b, board |-> bd, blocksLeft |-> bl,
                 score |-> sc, oob |-> FALSE]
    IN  CASE branch = "still" -> same
          [] branch = "exit" -> [same EXCEPT !.ret = 0]
          [] branch = "move" ->
                LET m == moveBall(b, bd, nx, ny)
                IN  [same EXCEPT !.ball = m.ball, !.board = m.board]
          [] branch = "corner" ->
                [same EXCEPT !.ball.xDirection = -b.xDirection,
                             !.ball.yDirection = -b.yDirection]
          [] branch = "side" -> [same EXCEPT !.ball.xDirection = -b.xDirection]
          [] branch = "ceiling" -> [same EXCEPT !.ball.yDirection = -b.yDirection]
          [] branch = "paddle" ->
                [same EXCEPT
                    !.ball.yDirection = -b.yDirection,
                    !.ball.xDirection =
                        IF rnd[1] = 0 THEN -b.xDirection ELSE b.xDirection,
                    !.ball.xVelocity = rnd[2] + 5,
                    !.ball.yVelocity = rnd[3] + 5]
          [] OTHER ->
                LET d == destroyBlock(bd, nx, ny, bl, sc)
                IN  [same EXCEPT
                        !.board = d.board, !.blocksLeft = d.blocksLeft,
                        !.score = d.score, !.oob = d.oob,
                        !.ball.xDirection =
                            IF rnd[1] = 0 THEN -b.xDirection ELSE b.xDirection,
                        !.ball.yDirection =
                            IF rnd[2] = 0 THEN -b.yDirection ELSE b.yDirection]

\* ------------------------------------------------------------ movePaddle
\* One iteration of the left loop (lines 382-388).
paddleLeftOnce(p, bd) ==
    LET newPaddleX == p.x - 1
        newEmptyX == p.x + p.len - 1
        bd1 == setTile(bd, newPaddleX, p.y, PADDLE)
    IN  [paddle |-> [p EXCEPT !.x = p.x - 1],
         board |-> setTile(bd1, newEmptyX, p.y, EMPTY)]

\* One iteration of the right loop (lines 394-400).
paddleRightOnce(p, bd) ==
    LET newPaddleX == p.x + p.len
        newEmptyX == p.x
        bd1 == setTile(bd, newPaddleX, p.y, PADDLE)
    IN  [paddle |-> [p EXCEPT !.x = p.x + 1],
         board |-> setTile(bd1, newEmptyX, p.y, EMPTY)]

\* n iterations of one of the loops.
RECURSIVE paddleLoop(_, _, _, _)
paddleLoop(p, bd, left, n) ==
    IF n <= 0 THEN [paddle |-> p, board |-> bd]
    ELSE LET r == IF left THEN paddleLeftOnce(p, bd) ELSE paddleRightOnce(p, bd)
         IN  paddleLoop(r.paddle, r.board, left, n - 1)

\* movePaddle with the left wall one column too far out (>= -1 for >= 0):
\* the paddle's bound must tell this variant from the code.
movePaddleWideLeft(p, bd) ==
    IF p.direction < 0 /\ p.x + p.direction >= -1
        THEN paddleLoop(p, bd, TRUE, -p.direction)
    ELSE IF p.direction > 0 /\ p.x + p.len + p.direction <= WIDTH
        THEN paddleLoop(p, bd, FALSE, p.direction)
    ELSE [paddle |-> p, board |-> bd]

\* movePaddle(paddle)
movePaddle(p, bd) ==
    IF p.direction < 0 /\ p.x + p.direction >= 0
        THEN paddleLoop(p, bd, TRUE, -p.direction)
    ELSE IF p.direction > 0 /\ p.x + p.len + p.direction <= WIDTH
        THEN paddleLoop(p, bd, FALSE, p.direction)
    ELSE [paddle |-> p, board |-> bd]

\* ------------------------------------------------------------ input
\* What nb_getch() can return, up to the cases of the switch: no key (or a
\* key with no case), p/P, j/J, k/K, q/Q, r/R.
Keys == {"none", "p", "j", "k", "q", "r"}

\* The switch with q / Q guarded by if (!isPaused) like j and k: quitting
\* while paused must tell this variant from the code.
pollKeyQuitWhenUnpaused(key, p, paused) ==
    LET paused1 == IF key = "p" THEN 1 - paused ELSE paused
        p1 == IF key \in {"p", "j"} /\ paused1 = 0
                  THEN [p EXCEPT !.direction = -1, !.lastDirection = 0]
              ELSE IF key = "k" /\ paused1 = 0
                  THEN [p EXCEPT !.direction = 1, !.lastDirection = 0]
              ELSE p
    IN  [paddle |-> p1, isPaused |-> paused1, quit |-> key = "q" /\ paused = 0]

\* The switch of lines 515-541.  case 'p' has no break and falls through
\* into case 'j'.  quit: the switch returned 0 from play().
pollKey(key, p, paused) ==
    LET paused1 == IF key = "p" THEN 1 - paused ELSE paused
        p1 == IF key \in {"p", "j"} /\ paused1 = 0
                  THEN [p EXCEPT !.direction = -1, !.lastDirection = 0]
              ELSE IF key = "k" /\ paused1 = 0
                  THEN [p EXCEPT !.direction = 1, !.lastDirection = 0]
              ELSE p
    IN  [paddle |-> p1, isPaused |-> paused1, quit |-> key = "q"]

\* ------------------------------------------------------------ state
\* pc: where main() / play() stands:
\*   "main"   main's while is about to call play(level, &score, &lives)
\*   "life"   play's while (*lives > 0) is about to be tested
\*   "input"  top of the frame loop: msleep, frame++, the key switch, the
\*            paddle step
\*   "ball"   line 554: the ball step and the end-of-frame tests
\*   "won"    play returned 1: main shows "Level complete" and does level++
\*   "lost"   play returned 0: main shows "Game over"
\*   "done"   main has returned
\*   "undefined"  the program wrote outside the board and did not survive
\* ret: the value of the last call of checkBall; oob: an access outside
\* the board has happened; ticks: frames and life starts simulated in this
\* run.
VARIABLES pc, level, score, lives, blocksLeft, frame, isPaused, ball, paddle,
          board, ret, oob, ticks

vars == <<pc, level, score, lives, blocksLeft, frame, isPaused, ball, paddle,
          board, ret, oob, ticks>>

\* The board of a program that has not generated a level yet (file scope,
\* zero-initialised).
emptyBoard == [x \in Cols |-> [y \in Rows |-> EMPTY]]

\* A Ball / Paddle whose fields have not been assigned yet; no field is
\* read before play() assigns it.
noBall == [x |-> 0, y |-> 0, xVelocity |-> 0, yVelocity |-> 0,
           xDirection |-> 0, yDirection |-> 0]

noPaddle == [x |-> 0, y |-> 0, len |-> 0, direction |-> 0, lastDirection |-> 0,
             velocity |-> 0]

\* main(): the state before the first call of play().
InitMain ==
    /\ pc = "main"
    /\ level = 1
    /\ score = 0
    /\ lives = STARTING_LIVES
    /\ blocksLeft = 0
    /\ frame = 0
    /\ isPaused = 0
    /\ ball = noBall
    /\ paddle = noPaddle
    /\ board = emptyBoard
    /\ ret = 1
    /\ oob = FALSE
    /\ ticks = 0

\* ------------------------------------------------------------ frame states
\* Play from main() reaches the far cells of the board, the later levels
\* and the later lives only after thousands of frames.  Besides InitMain
\* the model therefore starts from states the program was observed in at
\* the top of a frame (line 510, pc = "input"): the program was built from
\* src/main.c and run with scripted keys, and the values of play()'s
\* variables and of the board were recorded.  In those runs rand() % 3 of
\* generateBoard followed frameDraws(level); run again with other draws at
\* line 284 the program passed through the same states but for the colour
\* of the Block tiles.  Every other draw was free.

\* generateBoard's pairs, by their first cell.
allPairs(lv) ==
    {<<i, j>> : i \in {x \in 3 .. (WIDTH - 4) : x % 2 = 1},
                j \in 3 .. (maxBlockYOf(lv) - 1)}

\* One recorded state: level, *score, *lives, blocksLeft, frame, isPaused,
\* the ball <<x, y, xVelocity, yVelocity, xDirection, yDirection>>,
\* paddle.x, paddle.direction, the pairs still on the board, the cells
\* holding the Ball tile and the columns of the paddle's row holding the
\* Paddle tile.
frameState(lv, sc, lf, bl, fr, ps, b, px, pd, pairs, balls, tiles) ==
    [level |-> lv, score |-> sc, lives |-> lf, blocksLeft |-> bl, frame |-> fr,
     isPaused |-> ps, ball |-> b, px |-> px, pdir |-> pd, pairs |-> pairs,
     balls |-> balls, tiles |-> tiles]

\* States in which one cell holds the Ball tile, the ball's, and the Paddle
\* tiles are the paddle's span.
FrameStates ==
    {frameState(1, 0, 5, 243, 0, 0, <<30, 22, 8, 15, -1, -1>>, 20, 0,
        allPairs(1),
        {<<30, 22>>}, 20 .. 39),
     frameState(1, 0, 5, 243, 7, 0, <<30, 22, 8, 15, -1, -1>>, 20, 0,
        allPairs(1),
        {<<30, 22>>}, 20 .. 39),
     frameState(1, 0, 5, 243, 8, 0, <<29, 22, 8, 15, -1, -1>>, 20, 0,
        allPairs(1),
        {<<29, 22>>}, 20 .. 39),
     frameState(1, 0, 5, 243, 11, 0, <<29, 22, 8, 15, -1, -1>>, 20, -1,
        allPairs(1),
        {<<29, 22>>}, 20 .. 39),
     frameState(1, 0, 5, 243, 14, 0, <<29, 22, 8, 15, -1, -1>>, 19, -1,
        allPairs(1),
        {<<29, 22>>}, 19 .. 38),
     frameState(1, 0, 5, 243, 20, 0, <<28, 21, 8, 15, -1, -1>>, 17, -1,
        allPairs(1),
        {<<28, 21>>}, 17 .. 36),
     frameState(1, 0, 5, 243, 23, 0, <<28, 21, 8, 15, -1, -1>>, 17, 1,
        allPairs(1),
        {<<28, 21>>}, 17 .. 36),
     frameState(1, 0, 5, 243, 107, 0, <<39, 14, 11, 12, 1, -1>>, 40, -1,
        allPairs(1),
        {<<39, 14>>}, 40 .. 59),
     frameState(1, 0, 5, 243, 107, 0, <<20, 14, 10, 12, -1, -1>>, 0, 1,
        allPairs(1),
        {<<20, 14>>}, 0 .. 19),
     frameState(1, 0, 5, 243, 119, 0, <<16, 15, 8, 15, -1, -1>>, 5, 1,
        allPairs(1),
        {<<16, 15>>}, 5 .. 24),
     frameState(1, 0, 5, 243, 163, 0, <<10, 12, 8, 15, -1, -1>>, 0, -1,
        allPairs(1),
        {<<10, 12>>}, 0 .. 19),
     frameState(1, 0, 5, 243, 164, 0, <<10, 12, 8, 15, -1, -1>>, 0, -1,
        allPairs(1),
        {<<10, 12>>}, 0 .. 19),
     frameState(1, 10, 5, 242, 167, 0, <<10, 12, 8, 15, 1, 1>>, 0, -1,
        allPairs(1) \ {<<9, 11>>},
        {<<10, 12>>}, 0 .. 19),
     frameState(1, 0, 5, 243, 179, 0, <<1, 12, 6, 15, -1, -1>>, 0, -1,
        allPairs(1),
        {<<1, 12>>}, 0 .. 19),
     frameState(1, 0, 5, 243, 179, 0, <<58, 12, 6, 15, 1, -1>>, 25, -1,
        allPairs(1),
        {<<58, 12>>}, 25 .. 44),
     frameState(1, 10, 5, 242, 179, 0, <<12, 12, 8, 15, 1, 1>>, 2, 1,
        allPairs(1) \ {<<9, 11>>},
        {<<12, 12>>}, 2 .. 21),
     frameState(1, 0, 5, 243, 191, 0, <<1, 11, 6, 15, -1, -1>>, 40, 1,
        allPairs(1),
        {<<1, 11>>}, 40 .. 59),
     frameState(1, 0, 5, 243, 191, 0, <<59, 11, 6, 15, 1, -1>>, 0, -1,
        allPairs(1),
        {<<59, 11>>}, 0 .. 19),
     frameState(1, 0, 5, 243, 194, 0, <<0, 11, 6, 15, -1, -1>>, 40, 1,
        allPairs(1),
        {<<0, 11>>}, 40 .. 59),
     frameState(1, 0, 5, 243, 194, 0, <<59, 11, 6, 15, -1, -1>>, 0, -1,
        allPairs(1),
        {<<59, 11>>}, 0 .. 19),
     frameState(1, 0, 5, 243, 194, 0, <<0, 11, 6, 15, 1, -1>>, 0, -1,
        allPairs(1),
        {<<0, 11>>}, 0 .. 19),
     frameState(1, 0, 5, 243, 197, 0, <<0, 10, 6, 15, -1, -1>>, 40, 1,
        allPairs(1),
        {<<0, 10>>}, 40 .. 59),
     frameState(1, 10, 5, 242, 197, 0, <<39, 33, 11, 12, 1, -1>>, 40, 1,
        allPairs(1) \ {<<21, 11>>},
        {<<39, 33>>}, 40 .. 59),
     frameState(1, 10, 5, 242, 209, 0, <<1, 35, 7, 6, -1, 1>>, 2, 1,
        allPairs(1) \ {<<21, 11>>},
        {<<1, 35>>}, 2 .. 21),
     frameState(1, 0, 5, 243, 215, 0, <<2, 9, 6, 15, 1, -1>>, 40, 1,
        allPairs(1),
        {<<2, 9>>}, 40 .. 59),
     frameState(1, 10, 5, 242, 231, 0, <<58, 34, 8, 7, 1, 1>>, 0, -1,
        allPairs(1) \ {<<39, 11>>},
        {<<58, 34>>}, 0 .. 19),
     frameState(1, 10, 5, 242, 239, 0, <<19, 16, 8, 15, 1, 1>>, 9, 1,
        allPairs(1) \ {<<9, 11>>},
        {<<19, 16>>}, 9 .. 28),
     frameState(1, 10, 5, 242, 239, 0, <<59, 35, 8, 7, 1, 1>>, 17, -1,
        allPairs(1) \ {<<39, 11>>},
        {<<59, 35>>}, 17 .. 36),
     frameState(1, 10, 5, 242, 239, 0, <<59, 35, 8, 7, 1, 1>>, 0, -1,
        allPairs(1) \ {<<39, 11>>},
        {<<59, 35>>}, 0 .. 19),
     frameState(1, 10, 5, 242, 247, 0, <<59, 35, 8, 7, 1, 1>>, 25, 1,
        allPairs(1) \ {<<39, 11>>},
        {<<59, 35>>}, 25 .. 44),
     frameState(1, 10, 5, 242, 263, 0, <<59, 33, 9, 8, 1, 1>>, 7, 1,
        allPairs(1) \ {<<39, 11>>},
        {<<59, 33>>}, 7 .. 26),
     frameState(1, 10, 5, 242, 263, 0, <<37, 33, 15, 8, 1, 1>>, 17, 1,
        allPairs(1) \ {<<25, 11>>},
        {<<37, 33>>}, 17 .. 36),
     frameState(1, 10, 5, 242, 269, 0, <<59, 34, 9, 8, 1, 1>>, 9, 1,
        allPairs(1) \ {<<39, 11>>},
        {<<59, 34>>}, 9 .. 28),
     frameState(1, 10, 5, 242, 271, 0, <<59, 34, 9, 8, -1, 1>>, 9, 1,
        allPairs(1) \ {<<39, 11>>},
        {<<59, 34>>}, 9 .. 28),
     frameState(1, 10, 5, 242, 279, 0, <<43, 35, 9, 8, 1, 1>>, 0, -1,
        allPairs(1) \ {<<21, 11>>},
        {<<43, 35>>}, 0 .. 19),
     frameState(1, 10, 5, 242, 287, 0, <<0, 35, 9, 8, -1, 1>>, 2, -1,
        allPairs(1) \ {<<21, 11>>},
        {<<0, 35>>}, 2 .. 21),
     frameState(1, 10, 5, 242, 299, 0, <<59, 34, 10, 9, 1, 1>>, 0, 1,
        allPairs(1) \ {<<39, 11>>},
        {<<59, 34>>}, 0 .. 19),
     frameState(1, 10, 5, 242, 299, 0, <<59, 34, 10, 9, 1, 1>>, 0, -1,
        allPairs(1) \ {<<39, 11>>},
        {<<59, 34>>}, 0 .. 19),
     frameState(1, 10, 5, 242, 329, 0, <<58, 33, 11, 10, 1, 1>>, 18, 1,
        allPairs(1) \ {<<39, 11>>},
        {<<58, 33>>}, 18 .. 37),
     frameState(1, 10, 5, 242, 339, 0, <<59, 34, 11, 10, 1, 1>>, 20, -1,
        allPairs(1) \ {<<39, 11>>},
        {<<59, 34>>}, 20 .. 39),
     frameState(1, 10, 5, 242, 340, 0, <<59, 35, 11, 10, 1, 1>>, 19, -1,
        allPairs(1) \ {<<39, 11>>},
        {<<59, 35>>}, 19 .. 38),
     frameState(1, 10, 5, 242, 349, 0, <<59, 35, 11, 10, -1, 1>>, 17, -1,
        allPairs(1) \ {<<39, 11>>},
        {<<59, 35>>}, 17 .. 36),
     frameState(1, 10, 5, 242, 359, 0, <<37, 33, 15, 11, 1, 1>>, 39, -1,
        allPairs(1) \ {<<21, 11>>},
        {<<37, 33>>}, 39 .. 58),
     frameState(1, 10, 5, 242, 359, 0, <<59, 33, 12, 11, 1, 1>>, 39, 1,
        allPairs(1) \ {<<39, 11>>},
        {<<59, 33>>}, 39 .. 58),
     frameState(1, 10, 5, 242, 363, 0, <<37, 33, 7, 12, -1, -1>>, 38, 1,
        allPairs(1) \ {<<21, 11>>},
        {<<37, 33>>}, 38 .. 57),
     frameState(1, 10, 5, 242, 371, 0, <<0, 34, 12, 11, -1, 1>>, 40, 1,
        allPairs(1) \ {<<19, 11>>},
        {<<0, 34>>}, 40 .. 59),
     frameState(1, 10, 5, 242, 373, 0, <<0, 32, 12, 11, -1, 1>>, 1, -1,
        allPairs(1) \ {<<19, 11>>},
        {<<0, 32>>}, 1 .. 20),
     frameState(1, 10, 5, 242, 391, 0, <<34, 33, 7, 12, -1, 1>>, 13, 1,
        allPairs(1) \ {<<47, 11>>},
        {<<34, 33>>}, 13 .. 32),
     frameState(1, 10, 5, 242, 391, 0, <<39, 33, 14, 12, 1, 1>>, 40, 1,
        allPairs(1) \ {<<21, 11>>},
        {<<39, 33>>}, 40 .. 59),
     frameState(1, 10, 5, 242, 402, 0, <<0, 33, 13, 12, -1, 1>>, 1, -1,
        allPairs(1) \ {<<19, 11>>},
        {<<0, 33>>}, 1 .. 20),
     frameState(1, 10, 5, 242, 419, 0, <<59, 35, 14, 12, 1, 1>>, 20, 0,
        allPairs(1) \ {<<39, 11>>},
        {<<59, 35>>}, 20 .. 39),
     frameState(1, 10, 5, 242, 419, 0, <<1, 33, 14, 13, -1, 1>>, 20, 0,
        allPairs(1) \ {<<19, 11>>},
        {<<1, 33>>}, 20 .. 39),
     frameState(1, 10, 5, 242, 419, 0, <<39, 33, 14, 13, 1, 1>>, 40, -1,
        allPairs(1) \ {<<19, 11>>},
        {<<39, 33>>}, 40 .. 59),
     frameState(1, 10, 5, 242, 419, 0, <<59, 33, 14, 13, 1, 1>>, 32, -1,
        allPairs(1) \ {<<39, 11>>},
        {<<59, 33>>}, 32 .. 51),
     frameState(1, 10, 5, 242, 419, 0, <<48, 33, 10, 13, -1, 1>>, 28, 1,
        allPairs(1) \ {<<43, 11>>},
        {<<48, 33>>}, 28 .. 47),
     frameState(1, 10, 5, 242, 419, 0, <<59, 33, 14, 13, 1, 1>>, 33, 1,
        allPairs(1) \ {<<39, 11>>},
        {<<59, 33>>}, 33 .. 52),
     frameState(1, 10, 5, 242, 419, 0, <<20, 33, 6, 13, -1, 1>>, 0, -1,
        allPairs(1) \ {<<53, 11>>},
        {<<20, 33>>}, 0 .. 19),
     frameState(1, 10, 5, 242, 419, 0, <<59, 33, 14, 13, 1, 1>>, 0, -1,
        allPairs(1) \ {<<39, 11>>},
        {<<59, 33>>}, 0 .. 19),
     frameState(1, 20, 5, 241, 419, 0, <<58, 34, 7, 5, 1, 1>>, 0, -1,
        allPairs(1) \ {<<35, 11>>, <<41, 11>>},
        {<<58, 34>>}, 0 .. 19),
     frameState(1, 10, 5, 242, 428, 0, <<0, 33, 14, 13, -1, 1>>, 20, 0,
        allPairs(1) \ {<<19, 11>>},
        {<<0, 33>>}, 20 .. 39),
     frameState(1, 20, 5, 241, 428, 0, <<59, 32, 14, 13, -1, 1>>, 20, 0,
        allPairs(1) \ {<<39, 11>>, <<41, 11>>},
        {<<59, 32>>}, 20 .. 39),
     frameState(1, 20, 5, 241, 429, 0, <<0, 33, 5, 11, -1, -1>>, 1, 1,
        allPairs(1) \ {<<17, 10>>, <<19, 11>>},
        {<<0, 33>>}, 1 .. 20),
     frameState(1, 10, 5, 242, 433, 0, <<0, 34, 14, 13, -1, 1>>, 20, 0,
        allPairs(1) \ {<<19, 11>>},
        {<<0, 34>>}, 20 .. 39),
     frameState(1, 20, 5, 241, 434, 0, <<1, 33, 5, 9, -1, -1>>, 2, -1,
        allPairs(1) \ {<<19, 11>>, <<21, 11>>},
        {<<1, 33>>}, 2 .. 21),
     frameState(1, 10, 5, 242, 441, 0, <<0, 34, 14, 13, 1, 1>>, 20, 0,
        allPairs(1) \ {<<19, 11>>},
        {<<0, 34>>}, 20 .. 39),
     frameState(1, 10, 5, 242, 447, 0, <<59, 32, 15, 14, 1, 1>>, 1, 1,
        allPairs(1) \ {<<39, 11>>},
        {<<59, 32>>}, 1 .. 20),
     frameState(1, 10, 5, 242, 449, 0, <<1, 35, 15, 13, -1, 1>>, 26, -1,
        allPairs(1) \ {<<21, 11>>},
        {<<1, 35>>}, 26 .. 45),
     frameState(1, 10, 5, 242, 449, 0, <<58, 35, 6, 13, 1, 1>>, 20, 0,
        allPairs(1) \ {<<7, 11>>},
        {<<58, 35>>}, 20 .. 39),
     frameState(1, 10, 5, 242, 454, 0, <<0, 35, 15, 13, -1, 1>>, 25, -1,
        allPairs(1) \ {<<21, 11>>},
        {<<0, 35>>}, 25 .. 44),
     frameState(1, 10, 5, 242, 454, 0, <<59, 35, 6, 13, 1, 1>>, 20, 0,
        allPairs(1) \ {<<7, 11>>},
        {<<59, 35>>}, 20 .. 39),
     frameState(1, 10, 5, 242, 458, 0, <<19, 33, 9, 14, 1, 1>>, 20, 0,
        allPairs(1) \ {<<13, 11>>},
        {<<19, 33>>}, 20 .. 39),
     frameState(1, 10, 5, 242, 479, 0, <<44, 32, 11, 15, 1, 1>>, 0, -1,
        allPairs(1) \ {<<15, 11>>},
        {<<44, 32>>}, 0 .. 19),
     frameState(1, 10, 5, 242, 479, 0, <<49, 32, 8, 15, 1, 1>>, 39, 1,
        allPairs(1) \ {<<9, 11>>},
        {<<49, 32>>}, 39 .. 58),
     frameState(1, 20, 5, 241, 479, 0, <<0, 33, 15, 14, -1, 1>>, 40, 1,
        allPairs(1) \ {<<17, 11>>, <<19, 11>>},
        {<<0, 33>>}, 40 .. 59),
     frameState(1, 10, 5, 242, 483, 0, <<37, 33, 11, 7, 1, -1>>, 38, 1,
        allPairs(1) \ {<<7, 11>>},
        {<<37, 33>>}, 38 .. 57),
     frameState(1, 10, 5, 242, 483, 0, <<44, 33, 11, 15, 1, 1>>, 0, -1,
        allPairs(1) \ {<<15, 11>>},
        {<<44, 33>>}, 0 .. 19),
     frameState(1, 10, 5, 242, 483, 0, <<16, 33, 12, 15, -1, 1>>, 17, -1,
        allPairs(1) \ {<<43, 11>>},
        {<<16, 33>>}, 17 .. 36),
     frameState(1, 20, 5, 241, 489, 0, <<0, 33, 15, 14, 1, 1>>, 40, 1,
        allPairs(1) \ {<<17, 11>>, <<19, 11>>},
        {<<0, 33>>}, 40 .. 59),
     frameState(1, 10, 5, 242, 503, 0, <<59, 34, 6, 15, 1, 1>>, 11, -1,
        allPairs(1) \ {<<3, 11>>},
        {<<59, 34>>}, 11 .. 30),
     frameState(1, 10, 5, 242, 509, 0, <<47, 34, 11, 15, 1, 1>>, 0, -1,
        allPairs(1) \ {<<15, 11>>},
        {<<47, 34>>}, 0 .. 19),
     frameState(1, 10, 5, 242, 524, 0, <<48, 35, 11, 15, 1, 1>>, 0, -1,
        allPairs(1) \ {<<15, 11>>},
        {<<48, 35>>}, 0 .. 19),
     frameState(1, 10, 5, 242, 524, 0, <<58, 35, 7, 15, 1, 1>>, 20, 0,
        allPairs(1) \ {<<7, 11>>},
        {<<58, 35>>}, 20 .. 39),
     frameState(1, 10, 5, 242, 569, 0, <<1, 34, 6, 15, -1, 1>>, 20, 0,
        allPairs(1) \ {<<55, 10>>},
        {<<1, 34>>}, 20 .. 39),
     frameState(1, 10, 5, 242, 575, 0, <<0, 35, 6, 15, -1, 1>>, 40, 1,
        allPairs(1) \ {<<55, 10>>},
        {<<0, 35>>}, 40 .. 59),
     frameState(1, 20, 5, 241, 683, 0, <<59, 33, 6, 9, 1, 1>>, 0, -1,
        allPairs(1) \ {<<25, 11>>, <<41, 11>>},
        {<<59, 33>>}, 0 .. 19),
     frameState(1, 20, 5, 241, 707, 0, <<59, 34, 12, 12, 1, 1>>, 40, 1,
        allPairs(1) \ {<<37, 11>>, <<41, 11>>},
        {<<59, 34>>}, 40 .. 59),
     frameState(1, 30, 5, 240, 734, 0, <<58, 33, 5, 9, 1, -1>>, 37, 1,
        allPairs(1) \ {<<25, 11>>, <<39, 10>>, <<39, 11>>},
        {<<58, 33>>}, 37 .. 56),
     frameState(1, 20, 5, 241, 749, 0, <<0, 33, 10, 10, -1, 1>>, 40, 1,
        allPairs(1) \ {<<17, 11>>, <<19, 11>>},
        {<<0, 33>>}, 40 .. 59),
     frameState(1, 20, 5, 241, 759, 0, <<0, 34, 8, 10, -1, 1>>, 40, 1,
        allPairs(1) \ {<<27, 11>>, <<37, 11>>},
        {<<0, 34>>}, 40 .. 59),
     frameState(1, 20, 5, 241, 829, 0, <<58, 32, 10, 10, 1, 1>>, 39, -1,
        allPairs(1) \ {<<39, 11>>, <<43, 11>>},
        {<<58, 32>>}, 39 .. 58),
     frameState(1, 20, 5, 241, 903, 0, <<0, 33, 8, 10, -1, 1>>, 1, -1,
        allPairs(1) \ {<<7, 11>>, <<25, 11>>},
        {<<0, 33>>}, 1 .. 20),
     frameState(1, 20, 5, 241, 923, 0, <<1, 33, 7, 12, -1, 1>>, 23, 1,
        allPairs(1) \ {<<15, 11>>, <<37, 11>>},
        {<<1, 33>>}, 23 .. 42),
     frameState(1, 1650, 5, 78, 23036, 0, <<11, 5, 7, 12, -1, -1>>, 0, -1,
        {<<3, 7>>, <<3, 8>>, <<3, 9>>, <<5, 3>>, <<5, 4>>, <<5, 5>>, <<5, 6>>, <<5, 7>>, <<5, 8>>, <<5, 9>>, <<5, 10>>, <<5, 11>>, <<7, 4>>, <<7, 5>>, <<7, 6>>, <<7, 7>>, <<7, 10>>, <<9, 3>>, <<9, 4>>, <<9, 5>>, <<11, 3>>, <<15, 4>>, <<17, 3>>, <<17, 5>>, <<19, 5>>, <<21, 4>>, <<23, 3>>, <<23, 5>>, <<25, 6>>, <<25, 7>>, <<27, 4>>, <<27, 5>>, <<27, 6>>, <<27, 7>>, <<27, 8>>, <<29, 5>>, <<29, 7>>, <<29, 8>>, <<29, 9>>, <<29, 10>>, <<35, 8>>, <<37, 6>>, <<37, 7>>, <<37, 8>>, <<39, 6>>, <<39, 7>>, <<39, 8>>, <<39, 9>>, <<41, 4>>, <<41, 7>>, <<43, 4>>, <<43, 5>>, <<43, 6>>, <<43, 8>>, <<45, 5>>, <<45, 6>>, <<45, 7>>, <<47, 5>>, <<47, 7>>, <<47, 8>>, <<49, 6>>, <<49, 7>>, <<49, 8>>, <<49, 9>>, <<51, 5>>, <<51, 6>>, <<51, 7>>, <<51, 8>>, <<53, 3>>, <<53, 4>>, <<53, 5>>, <<53, 6>>, <<53, 7>>, <<53, 8>>, <<53, 9>>, <<55, 3>>, <<55, 4>>, <<55, 5>>},
        {<<11, 5>>}, 0 .. 19),
     frameState(1, 2420, 5, 1, 60751, 0, <<12, 1, 6, 8, -1, -1>>, 3, -1,
        {<<5, 4>>},
        {<<12, 1>>}, 3 .. 22),
     frameState(1, 2420, 5, 1, 60755, 0, <<12, 0, 6, 8, -1, -1>>, 2, -1,
        {<<5, 4>>},
        {<<12, 0>>}, 2 .. 21),
     frameState(1, 2420, 5, 1, 60759, 0, <<11, 0, 6, 8, -1, -1>>, 1, -1,
        {<<5, 4>>},
        {<<11, 0>>}, 1 .. 20),
     frameState(1, 2420, 5, 1, 60761, 0, <<11, 0, 6, 8, -1, 1>>, 0, 1,
        {<<5, 4>>},
        {<<11, 0>>}, 0 .. 19),
     frameState(1, 2420, 5, 1, 60767, 0, <<10, 0, 6, 8, -1, 1>>, 1, -1,
        {<<5, 4>>},
        {<<10, 0>>}, 1 .. 20),
     frameState(1, 2420, 5, 1, 60773, 0, <<9, 1, 6, 8, -1, 1>>, 0, -1,
        {<<5, 4>>},
        {<<9, 1>>}, 0 .. 19),
     frameState(1, 2420, 5, 1, 60775, 0, <<8, 1, 6, 8, -1, 1>>, 0, -1,
        {<<5, 4>>},
        {<<8, 1>>}, 0 .. 19),
     frameState(1, 2420, 5, 1, 60791, 0, <<6, 3, 6, 8, -1, 1>>, 0, -1,
        {<<5, 4>>},
        {<<6, 3>>}, 0 .. 19),
     frameState(1, 2360, 5, 7, 87439, 0, <<9, 4, 11, 10, -1, 1>>, 0, -1,
        {<<7, 5>>, <<9, 5>>, <<9, 6>>, <<9, 8>>, <<11, 6>>, <<15, 5>>, <<19, 4>>},
        {<<9, 4>>}, 0 .. 19),
     frameState(2, 2430, 7, 270, 11, 0, <<30, 23, 13, 12, 1, -1>>, 20, 0,
        allPairs(2),
        {<<30, 23>>}, 20 .. 39),
     frameState(2, 2430, 7, 270, 12, 0, <<30, 22, 13, 12, 1, -1>>, 20, 0,
        allPairs(2),
        {<<30, 22>>}, 20 .. 39),
     frameState(2, 2430, 7, 270, 127, 0, <<51, 15, 6, 15, 1, -1>>, 40, 1,
        allPairs(2),
        {<<51, 15>>}, 40 .. 59),
     frameState(2, 2430, 7, 270, 131, 0, <<40, 13, 13, 12, 1, -1>>, 29, 1,
        allPairs(2),
        {<<40, 13>>}, 29 .. 48),
     frameState(2, 2430, 7, 270, 173, 0, <<58, 12, 6, 15, 1, -1>>, 40, 1,
        allPairs(2),
        {<<58, 12>>}, 40 .. 59),
     frameState(2, 2430, 7, 270, 179, 0, <<59, 12, 6, 15, 1, -1>>, 40, 1,
        allPairs(2),
        {<<59, 12>>}, 40 .. 59),
     frameState(2, 2430, 7, 270, 197, 0, <<57, 11, 6, 15, -1, -1>>, 40, 1,
        allPairs(2),
        {<<57, 11>>}, 40 .. 59),
     frameState(2, 2440, 3, 269, 402, 0, <<1, 32, 13, 13, -1, 1>>, 1, 1,
        allPairs(2) \ {<<19, 12>>},
        {<<1, 32>>}, 1 .. 20),
     frameState(2, 5120, 7, 1, 46509, 0, <<58, 10, 5, 6, 1, 1>>, 40, 1,
        {<<49, 6>>},
        {<<58, 10>>}, 40 .. 59),
     frameState(2, 5120, 7, 1, 46511, 0, <<59, 10, 5, 6, 1, 1>>, 40, 1,
        {<<49, 6>>},
        {<<59, 10>>}, 40 .. 59),
     frameState(2, 5120, 7, 1, 46514, 0, <<59, 11, 5, 6, 1, 1>>, 40, 1,
        {<<49, 6>>},
        {<<59, 11>>}, 40 .. 59),
     frameState(2, 5120, 7, 1, 46517, 0, <<59, 11, 5, 6, -1, 1>>, 40, 1,
        {<<49, 6>>},
        {<<59, 11>>}, 40 .. 59),
     frameState(2, 5120, 7, 1, 46643, 0, <<34, 32, 5, 6, -1, 1>>, 25, -1,
        {<<49, 6>>},
        {<<34, 32>>}, 25 .. 44),
     frameState(2, 5120, 7, 1, 46769, 0, <<50, 7, 8, 5, 1, -1>>, 39, 1,
        {<<49, 6>>},
        {<<50, 7>>}, 39 .. 58),
     frameState(3, 5130, 9, 270, 11, 0, <<29, 23, 10, 15, -1, -1>>, 21, -1,
        allPairs(3),
        {<<29, 23>>}, 21 .. 38),
     frameState(3, 5130, 9, 270, 19, 0, <<29, 22, 10, 15, -1, -1>>, 19, 1,
        allPairs(3),
        {<<29, 22>>}, 19 .. 36),
     frameState(3, 5130, 9, 270, 147, 0, <<9, 14, 7, 15, -1, -1>>, 0, 1,
        allPairs(3),
        {<<9, 14>>}, 0 .. 17),
     frameState(3, 5130, 9, 270, 155, 0, <<8, 13, 7, 15, -1, -1>>, 0, -1,
        allPairs(3),
        {<<8, 13>>}, 0 .. 17),
     frameState(3, 7820, 9, 1, 48154, 0, <<41, 1, 11, 5, 1, -1>>, 32, 1,
        {<<33, 9>>},
        {<<41, 1>>}, 32 .. 49),
     frameState(3, 7820, 9, 1, 48157, 0, <<41, 0, 11, 5, 1, -1>>, 33, -1,
        {<<33, 9>>},
        {<<41, 0>>}, 33 .. 50),
     frameState(3, 7820, 9, 1, 48159, 0, <<42, 0, 11, 5, 1, -1>>, 33, -1,
        {<<33, 9>>},
        {<<42, 0>>}, 33 .. 50),
     frameState(3, 7820, 9, 1, 48259, 0, <<51, 19, 11, 5, 1, 1>>, 42, -1,
        {<<33, 9>>},
        {<<51, 19>>}, 42 .. 59),
     frameState(3, 7820, 9, 1, 48324, 0, <<57, 32, 11, 5, 1, 1>>, 42, 1,
        {<<33, 9>>},
        {<<57, 32>>}, 42 .. 59),
     frameState(3, 7820, 9, 1, 48335, 0, <<59, 32, 7, 12, 1, -1>>, 42, 1,
        {<<33, 9>>},
        {<<59, 32>>}, 42 .. 59),
     frameState(3, 7820, 9, 1, 48719, 0, <<6, 0, 7, 12, -1, -1>>, 0, -1,
        {<<33, 9>>},
        {<<6, 0>>}, 0 .. 17),
     frameState(3, 7820, 9, 1, 48761, 0, <<1, 3, 7, 12, -1, 1>>, 0, -1,
        {<<33, 9>>},
        {<<1, 3>>}, 0 .. 17),
     frameState(3, 7820, 9, 1, 48767, 0, <<0, 3, 7, 12, -1, 1>>, 0, -1,
        {<<33, 9>>},
        {<<0, 3>>}, 0 .. 17),
     frameState(3, 7820, 9, 1, 48768, 0, <<0, 4, 7, 12, -1, 1>>, 0, -1,
        {<<33, 9>>},
        {<<0, 4>>}, 0 .. 17),
     frameState(3, 7820, 9, 1, 49814, 0, <<20, 0, 5, 9, 1, -1>>, 11, 1,
        {<<33, 9>>},
        {<<20, 0>>}, 11 .. 28),
     frameState(3, 7820, 9, 1, 49819, 0, <<20, 0, 5, 9, 1, 1>>, 12, -1,
        {<<33, 9>>},
        {<<20, 0>>}, 12 .. 29),
     frameState(3, 7820, 9, 1, 50861, 0, <<14, 1, 6, 7, 1, -1>>, 5, 1,
        {<<33, 9>>},
        {<<14, 1>>}, 5 .. 22),
     frameState(3, 7820, 9, 1, 51419, 0, <<23, 1, 10, 10, -1, -1>>, 14, -1,
        {<<33, 9>>},
        {<<23, 1>>}, 14 .. 31),
     frameState(3, 7820, 9, 1, 51649, 0, <<1, 21, 10, 10, -1, 1>>, 0, -1,
        {<<33, 9>>},
        {<<1, 21>>}, 0 .. 17),
     frameState(3, 7820, 9, 1, 51659, 0, <<0, 22, 10, 10, -1, 1>>, 0, -1,
        {<<33, 9>>},
        {<<0, 22>>}, 0 .. 17),
     frameState(3, 7820, 9, 1, 52505, 0, <<0, 3, 5, 9, 1, 1>>, 0, -1,
        {<<33, 9>>},
        {<<0, 3>>}, 0 .. 17),
     frameState(3, 7820, 9, 1, 54469, 0, <<58, 1, 10, 10, 1, -1>>, 42, 1,
        {<<33, 9>>},
        {<<58, 1>>}, 42 .. 59),
     frameState(3, 7820, 9, 1, 54479, 0, <<59, 0, 10, 10, 1, -1>>, 42, 1,
        {<<33, 9>>},
        {<<59, 0>>}, 42 .. 59),
     frameState(3, 7820, 9, 1, 54819, 0, <<27, 32, 10, 10, -1, 1>>, 17, 1,
        {<<33, 9>>},
        {<<27, 32>>}, 17 .. 34),
     frameState(3, 7820, 9, 1, 56651, 0, <<59, 14, 6, 12, 1, 1>>, 42, 1,
        {<<33, 9>>},
        {<<59, 14>>}, 42 .. 59),
     frameState(3, 7820, 9, 1, 56994, 0, <<0, 10, 5, 5, -1, -1>>, 0, -1,
        {<<33, 9>>},
        {<<0, 10>>}, 0 .. 17),
     frameState(3, 7820, 9, 1, 58559, 0, <<33, 8, 11, 5, -1, 1>>, 24, -1,
        {<<33, 9>>},
        {<<33, 8>>}, 24 .. 41),
     frameState(3, 7820, 8, 1, 64601, 0, <<18, 33, 6, 8, -1, 1>>, 0, -1,
        {<<53, 7>>},
        {<<18, 33>>}, 0 .. 17),
     frameState(3, 7820, 8, 1, 64602, 0, <<18, 33, 7, 10, -1, -1>>, 0, -1,
        {<<53, 7>>},
        {<<18, 33>>}, 0 .. 17),
     frameState(4, 7830, 11, 297, 89, 0, <<16, 14, 6, 9, -1, -1>>, 6, 1,
        allPairs(4),
        {<<16, 14>>}, 6 .. 23),
     frameState(4, 10790, 11, 1, 58895, 0, <<1, 0, 8, 7, -1, -1>>, 0, -1,
        {<<9, 5>>},
        {<<1, 0>>}, 0 .. 17),
     frameState(4, 10790, 11, 1, 58897, 0, <<0, 0, 8, 7, -1, -1>>, 0, -1,
        {<<9, 5>>},
        {<<0, 0>>}, 0 .. 17),
     frameState(4, 10790, 11, 1, 59465, 0, <<58, 0, 11, 10, 1, 1>>, 42, 1,
        {<<9, 5>>},
        {<<58, 0>>}, 42 .. 59),
     frameState(4, 10790, 11, 1, 60125, 0, <<1, 0, 11, 10, -1, 1>>, 0, -1,
        {<<9, 5>>},
        {<<1, 0>>}, 0 .. 17),
     frameState(4, 10790, 11, 1, 60668, 0, <<59, 1, 7, 7, 1, -1>>, 42, 1,
        {<<9, 5>>},
        {<<59, 1>>}, 42 .. 59),
     frameState(4, 10790, 11, 1, 61819, 0, <<58, 1, 10, 11, 1, 1>>, 42, 1,
        {<<9, 5>>},
        {<<58, 1>>}, 42 .. 59),
     frameState(4, 10790, 11, 1, 62457, 0, <<10, 6, 8, 11, 1, -1>>, 0, 1,
        {<<9, 5>>},
        {<<10, 6>>}, 0 .. 17),
     frameState(5, 10800, 13, 297, 55, 0, <<37, 17, 7, 8, 1, -1>>, 27, 1,
        allPairs(5),
        {<<37, 17>>}, 27 .. 44),
     frameState(5, 10800, 13, 297, 131, 0, <<51, 14, 6, 14, 1, -1>>, 42, 1,
        allPairs(5),
        {<<51, 14>>}, 42 .. 59),
     frameState(5, 13760, 13, 1, 59314, 0, <<29, 3, 9, 5, 1, 1>>, 20, 1,
        {<<29, 4>>},
        {<<29, 3>>}, 20 .. 37),
     frameState(6, 13770, 15, 324, 15, 0, <<29, 22, 14, 7, -1, -1>>, 22, -1,
        allPairs(6),
        {<<29, 22>>}, 22 .. 37),
     frameState(6, 13770, 15, 324, 23, 0, <<29, 21, 14, 7, -1, -1>>, 20, 1,
        allPairs(6),
        {<<29, 21>>}, 20 .. 35),
     frameState(6, 13770, 13, 324, 107, 0, <<15, 15, 7, 11, -1, -1>>, 0, 1,
        allPairs(6),
        {<<15, 15>>}, 0 .. 15),
     frameState(6, 17000, 15, 1, 64323, 0, <<51, 9, 10, 12, -1, -1>>, 44, -1,
        {<<45, 10>>},
        {<<51, 9>>}, 44 .. 59),
     frameState(6, 17000, 15, 1, 65759, 0, <<1, 32, 12, 8, -1, 1>>, 0, -1,
        {<<45, 10>>},
        {<<1, 32>>}, 0 .. 15),
     frameState(6, 17000, 15, 1, 67529, 0, <<0, 1, 6, 10, -1, -1>>, 0, -1,
        {<<45, 10>>},
        {<<0, 1>>}, 0 .. 15),
     frameState(6, 17000, 15, 1, 72059, 0, <<47, 10, 5, 11, -1, -1>>, 40, -1,
        {<<45, 10>>},
        {<<47, 10>>}, 40 .. 55),
     frameState(7, 17010, 17, 324, 135, 0, <<8, 15, 6, 14, -1, -1>>, 0, -1,
        allPairs(7),
        {<<8, 15>>}, 0 .. 15),
     frameState(7, 17010, 17, 324, 135, 0, <<52, 15, 6, 14, 1, -1>>, 44, 1,
        allPairs(7),
        {<<52, 15>>}, 44 .. 59),
     frameState(7, 20240, 17, 1, 49631, 0, <<1, 0, 6, 12, -1, -1>>, 0, -1,
        {<<23, 7>>},
        {<<1, 0>>}, 0 .. 15),
     frameState(7, 20240, 17, 1, 57464, 0, <<59, 1, 11, 9, 1, -1>>, 44, 1,
        {<<23, 7>>},
        {<<59, 1>>}, 44 .. 59),
     frameState(7, 20240, 17, 1, 57473, 0, <<59, 0, 11, 9, 1, -1>>, 44, 1,
        {<<23, 7>>},
        {<<59, 0>>}, 44 .. 59),
     frameState(7, 20240, 17, 1, 57474, 0, <<59, 0, 11, 9, 1, 1>>, 44, 1,
        {<<23, 7>>},
        {<<59, 0>>}, 44 .. 59),
     frameState(7, 20240, 17, 1, 60509, 0, <<58, 0, 10, 12, 1, -1>>, 44, 1,
        {<<23, 7>>},
        {<<58, 0>>}, 44 .. 59),
     frameState(7, 20240, 17, 1, 66869, 0, <<25, 7, 10, 11, -1, -1>>, 16, 1,
        {<<23, 7>>},
        {<<25, 7>>}, 16 .. 31),
     frameState(8, 20250, 19, 351, 134, 0, <<38, 16, 15, 15, 1, -1>>, 30, -1,
        allPairs(8),
        {<<38, 16>>}, 30 .. 45),
     frameState(8, 23750, 19, 1, 72731, 0, <<41, 7, 7, 12, 1, -1>>, 32, 1,
        {<<41, 6>>},
        {<<41, 7>>}, 32 .. 47),
     frameState(9, 23760, 21, 351, 7, 0, <<29, 24, 6, 15, -1, -1>>, 23, -1,
        allPairs(9),
        {<<29, 24>>}, 23 .. 36),
     frameState(9, 23760, 21, 351, 19, 0, <<27, 23, 6, 15, -1, -1>>, 20, 1,
        allPairs(9),
        {<<27, 23>>}, 20 .. 33),
     frameState(9, 23770, 21, 350, 139, 0, <<7, 16, 6, 15, -1, 1>>, 0, 1,
        allPairs(9) \ {<<7, 15>>},
        {<<7, 16>>}, 0 .. 13),
     frameState(9, 23770, 21, 350, 147, 0, <<6, 16, 6, 15, -1, 1>>, 0, -1,
        allPairs(9) \ {<<7, 15>>},
        {<<6, 16>>}, 0 .. 13),
     frameState(9, 27260, 18, 1, 69287, 0, <<49, 34, 9, 6, 1, 1>>, 0, -1,
        {<<23, 8>>},
        {<<49, 34>>}, 0 .. 13),
     frameState(9, 27260, 21, 1, 80563, 0, <<52, 30, 8, 8, -1, 1>>, 46, -1,
        {<<51, 8>>},
        {<<52, 30>>}, 46 .. 59),
     frameState(9, 27260, 21, 1, 91412, 0, <<53, 9, 7, 7, -1, -1>>, 46, 1,
        {<<51, 8>>},
        {<<53, 9>>}, 46 .. 59),
     frameState(10, 27270, 19, 378, 95, 0, <<38, 18, 11, 13, 1, -1>>, 46, 1,
        allPairs(10),
        {<<38, 18>>}, 46 .. 59),
     frameState(10, 31040, 22, 1, 57399, 0, <<58, 32, 7, 7, 1, 1>>, 46, 1,
        {<<15, 6>>},
        {<<58, 32>>}, 46 .. 59),
     frameState(10, 31040, 22, 1, 58619, 0, <<16, 7, 9, 6, -1, -1>>, 10, -1,
        {<<15, 6>>},
        {<<16, 7>>}, 10 .. 23),
     frameState(11, 34820, 23, 1, 69138, 0, <<30, 5, 12, 7, -1, 1>>, 22, 1,
        {<<29, 6>>},
        {<<30, 5>>}, 22 .. 35),
     frameState(12, 34830, 24, 405, 11, 0, <<29, 25, 9, 14, -1, -1>>, 24, -1,
        allPairs(12),
        {<<29, 25>>}, 24 .. 35),
     frameState(12, 34830, 24, 405, 19, 0, <<28, 24, 9, 14, -1, -1>>, 22, 1,
        allPairs(12),
        {<<28, 24>>}, 22 .. 33),
     frameState(12, 38870, 24, 1, 144647, 0, <<7, 23, 11, 5, -1, 1>>, 0, 1,
        {<<17, 7>>},
        {<<7, 23>>}, 0 .. 11),
     frameState(12, 38870, 24, 1, 144655, 0, <<6, 25, 11, 5, -1, 1>>, 0, -1,
        {<<17, 7>>},
        {<<6, 25>>}, 0 .. 11),
     frameState(12, 38870, 24, 1, 145207, 0, <<54, 30, 9, 8, 1, 1>>, 48, -1,
        {<<17, 7>>},
        {<<54, 30>>}, 48 .. 59),
     frameState(12, 38870, 24, 1, 146514, 0, <<59, 1, 11, 5, -1, -1>>, 48, 1,
        {<<17, 7>>},
        {<<59, 1>>}, 48 .. 59),
     frameState(12, 38870, 24, 1, 148268, 0, <<17, 8, 6, 11, 1, -1>>, 10, -1,
        {<<17, 7>>},
        {<<17, 8>>}, 10 .. 21),
     frameState(13, 38880, 21, 405, 99, 0, <<19, 18, 9, 14, -1, -1>>, 48, 1,
        allPairs(13),
        {<<19, 18>>}, 48 .. 59),
     frameState(13, 38890, 19, 404, 263, 0, <<23, 33, 12, 11, -1, 1>>, 0, -1,
        allPairs(13) \ {<<37, 17>>},
        {<<23, 33>>}, 0 .. 11),
     frameState(13, 38890, 19, 404, 275, 0, <<22, 35, 12, 11, -1, 1>>, 0, -1,
        allPairs(13) \ {<<37, 17>>},
        {<<22, 35>>}, 0 .. 11),
     frameState(13, 42920, 25, 1, 79895, 0, <<0, 1, 7, 6, -1, -1>>, 0, -1,
        {<<25, 4>>},
        {<<0, 1>>}, 0 .. 11),
     frameState(13, 42920, 25, 1, 79897, 0, <<0, 0, 7, 6, -1, -1>>, 0, -1,
        {<<25, 4>>},
        {<<0, 0>>}, 0 .. 11),
     frameState(13, 42920, 25, 1, 79901, 0, <<0, 0, 7, 6, 1, -1>>, 0, -1,
        {<<25, 4>>},
        {<<0, 0>>}, 0 .. 11),
     frameState(13, 42920, 25, 1, 79925, 0, <<0, 0, 7, 6, -1, -1>>, 0, -1,
        {<<25, 4>>},
        {<<0, 0>>}, 0 .. 11),
     frameState(13, 42920, 25, 1, 96546, 0, <<24, 4, 11, 12, 1, 1>>, 18, -1,
        {<<25, 4>>},
        {<<24, 4>>}, 18 .. 29),
     frameState(14, 47240, 26, 1, 56517, 0, <<59, 32, 10, 7, -1, 1>>, 48, 1,
        {<<43, 5>>},
        {<<59, 32>>}, 48 .. 59),
     frameState(14, 47240, 26, 1, 58664, 0, <<42, 5, 5, 11, 1, -1>>, 37, 1,
        {<<43, 5>>},
        {<<42, 5>>}, 37 .. 48),
     frameState(14, 47240, 17, 1, 72239, 0, <<58, 33, 5, 11, 1, 1>>, 0, -1,
        {<<21, 9>>},
        {<<58, 33>>}, 0 .. 11),
     frameState(14, 47240, 17, 1, 72244, 0, <<59, 33, 5, 11, 1, 1>>, 0, -1,
        {<<21, 9>>},
        {<<59, 33>>}, 0 .. 11),
     frameState(14, 47240, 17, 1, 72247, 0, <<59, 33, 5, 11, -1, 1>>, 0, -1,
        {<<21, 9>>},
        {<<59, 33>>}, 0 .. 11),
     frameState(14, 47240, 26, 1, 96731, 0, <<0, 32, 9, 12, -1, 1>>, 0, -1,
        {<<15, 12>>},
        {<<0, 32>>}, 0 .. 11),
     frameState(15, 47250, 27, 432, 11, 0, <<29, 25, 11, 6, -1, -1>>, 25, 0,
        allPairs(15),
        {<<29, 25>>}, 25 .. 34),
     frameState(15, 47250, 27, 432, 19, 0, <<29, 23, 11, 6, -1, -1>>, 23, 1,
        allPairs(15),
        {<<29, 23>>}, 23 .. 32),
     frameState(15, 51560, 27, 1, 162539, 0, <<4, 25, 5, 10, -1, 1>>, 0, -1,
        {<<31, 9>>},
        {<<4, 25>>}, 0 .. 9),
     frameState(15, 51560, 27, 1, 162591, 0, <<6, 30, 5, 10, 1, 1>>, 0, 1,
        {<<31, 9>>},
        {<<6, 30>>}, 0 .. 9),
     frameState(15, 51560, 27, 1, 163331, 0, <<54, 15, 12, 11, 1, -1>>, 50, -1,
        {<<31, 9>>},
        {<<54, 15>>}, 50 .. 59),
     frameState(15, 51560, 27, 1, 163339, 0, <<55, 14, 12, 11, 1, -1>>, 50, 1,
        {<<31, 9>>},
        {<<55, 14>>}, 50 .. 59),
     frameState(15, 51560, 27, 1, 165409, 0, <<32, 8, 6, 10, -1, 1>>, 27, -1,
        {<<31, 9>>},
        {<<32, 8>>}, 27 .. 36),
     frameState(15, 51560, 23, 1, 175445, 0, <<10, 32, 12, 9, -1, 1>>, 50, 1,
        {<<41, 4>>},
        {<<10, 32>>}, 50 .. 59),
     frameState(15, 51560, 23, 1, 175451, 0, <<10, 33, 12, 9, -1, 1>>, 50, 1,
        {<<41, 4>>},
        {<<10, 33>>}, 50 .. 59),
     frameState(15, 51560, 23, 1, 175454, 0, <<9, 33, 12, 9, -1, 1>>, 50, 1,
        {<<41, 4>>},
        {<<9, 33>>}, 50 .. 59),
     frameState(15, 51560, 23, 1, 175463, 0, <<9, 34, 12, 9, -1, 1>>, 50, 1,
        {<<41, 4>>},
        {<<9, 34>>}, 50 .. 59),
     frameState(15, 51560, 23, 1, 175472, 0, <<8, 35, 12, 9, -1, 1>>, 50, 1,
        {<<41, 4>>},
        {<<8, 35>>}, 50 .. 59),
     frameState(16, 56150, 18, 1, 64711, 0, <<40, 33, 6, 12, -1, 1>>, 30, 1,
        {<<7, 10>>},
        {<<40, 33>>}, 30 .. 39),
     frameState(16, 56150, 18, 1, 64733, 0, <<37, 35, 6, 12, -1, 1>>, 26, 1,
        {<<7, 10>>},
        {<<37, 35>>}, 26 .. 35),
     frameState(16, 56150, 18, 1, 64739, 0, <<36, 35, 6, 12, -1, 1>>, 27, -1,
        {<<7, 10>>},
        {<<36, 35>>}, 27 .. 36),
     frameState(16, 56150, 28, 1, 66011, 0, <<24, 11, 7, 12, 1, 1>>, 19, -1,
        {<<23, 12>>},
        {<<24, 11>>}, 19 .. 28),
     frameState(17, 56160, 19, 459, 5, 0, <<30, 26, 10, 9, -1, -1>>, 25, 0,
        allPairs(17),
        {<<30, 26>>}, 25 .. 34),
     frameState(17, 60740, 29, 1, 89053, 0, <<59, 0, 7, 9, 1, -1>>, 50, 1,
        {<<37, 4>>},
        {<<59, 0>>}, 50 .. 59),
     frameState(17, 60740, 29, 1, 89054, 0, <<59, 0, 7, 9, -1, -1>>, 50, 1,
        {<<37, 4>>},
        {<<59, 0>>}, 50 .. 59),
     frameState(17, 60740, 29, 1, 89534, 0, <<37, 3, 9, 5, 1, 1>>, 31, 1,
        {<<37, 4>>},
        {<<37, 3>>}, 31 .. 40),
     frameState(18, 65600, 30, 1, 69956, 0, <<59, 32, 5, 9, 1, 1>>, 50, 1,
        {<<41, 17>>},
        {<<59, 32>>}, 50 .. 59),
     frameState(18, 65600, 30, 1, 85076, 0, <<42, 18, 6, 9, 1, -1>>, 36, -1,
        {<<41, 17>>},
        {<<42, 18>>}, 36 .. 45),
     frameState(19, 70460, 31, 1, 218999, 0, <<47, 6, 10, 7, -1, 1>>, 41, 1,
        {<<45, 6>>},
        {<<47, 6>>}, 41 .. 50),
     frameState(20, 75590, 32, 1, 68592, 0, <<7, 7, 5, 7, -1, -1>>, 2, -1,
        {<<7, 6>>},
        {<<7, 7>>}, 2 .. 11),
     frameState(21, 80720, 32, 1, 55535, 0, <<29, 11, 6, 9, -1, 1>>, 24, -1,
        {<<27, 11>>},
        {<<29, 11>>}, 24 .. 33),
     frameState(22, 86120, 33, 1, 127729, 0, <<0, 32, 8, 5, 1, 1>>, 0, -1,
        {<<43, 14>>},
        {<<0, 32>>}, 0 .. 9),
     frameState(22, 86120, 33, 1, 127734, 0, <<0, 32, 8, 5, -1, 1>>, 0, -1,
        {<<43, 14>>},
        {<<0, 32>>}, 0 .. 9),
     frameState(22, 86120, 33, 1, 131795, 0, <<45, 13, 9, 12, -1, 1>>, 40, -1,
        {<<43, 14>>},
        {<<45, 13>>}, 40 .. 49),
     frameState(23, 91520, 33, 1, 78767, 0, <<57, 4, 12, 12, -1, -1>>, 50, 1,
        {<<55, 3>>},
        {<<57, 4>>}, 50 .. 59),
     frameState(24, 97190, 34, 1, 83579, 0, <<28, 17, 12, 7, 1, -1>>, 24, -1,
        {<<29, 16>>},
        {<<28, 17>>}, 24 .. 33),
     frameState(25, 102860, 16, 1, 78715, 0, <<1, 34, 11, 8, -1, 1>>, 50, 1,
        {<<25, 5>>},
        {<<1, 34>>}, 50 .. 59),
     frameState(25, 102860, 16, 1, 78719, 0, <<0, 34, 11, 8, -1, 1>>, 50, 1,
        {<<25, 5>>},
        {<<0, 34>>}, 50 .. 59),
     frameState(25, 102860, 16, 1, 78726, 0, <<0, 35, 11, 8, -1, 1>>, 50, 1,
        {<<25, 5>>},
        {<<0, 35>>}, 50 .. 59),
     frameState(25, 102860, 16, 1, 78727, 0, <<0, 35, 11, 8, 1, 1>>, 50, 1,
        {<<25, 5>>},
        {<<0, 35>>}, 50 .. 59),
     frameState(25, 102860, 34, 1, 88643, 0, <<59, 32, 12, 12, 1, 1>>, 50, 1,
        {<<17, 16>>},
        {<<59, 32>>}, 50 .. 59),
     frameState(25, 102860, 34, 1, 95009, 0, <<18, 17, 9, 5, -1, -1>>, 12, 1,
        {<<17, 16>>},
        {<<18, 17>>}, 12 .. 21),
     frameState(25, 102860, 15, 1, 95741, 0, <<8, 32, 9, 6, -1, 1>>, 8, 1,
        {<<23, 5>>},
        {<<8, 32>>}, 8 .. 17),
     frameState(25, 102860, 15, 1, 95747, 0, <<7, 33, 9, 6, -1, 1>>, 9, -1,
        {<<23, 5>>},
        {<<7, 33>>}, 9 .. 18),
     frameState(25, 102860, 15, 1, 95750, 0, <<7, 34, 9, 6, -1, 1>>, 8, -1,
        {<<23, 5>>},
        {<<7, 34>>}, 8 .. 17),
     frameState(25, 102860, 15, 1, 95753, 0, <<6, 34, 9, 6, -1, 1>>, 7, -1,
        {<<23, 5>>},
        {<<6, 34>>}, 7 .. 16),
     frameState(25, 102860, 15, 1, 95759, 0, <<6, 35, 9, 6, -1, 1>>, 6, 1,
        {<<23, 5>>},
        {<<6, 35>>}, 6 .. 15),
     frameState(26, 108800, 35, 1, 62000, 0, <<47, 8, 5, 9, 1, -1>>, 41, -1,
        {<<47, 7>>},
        {<<47, 8>>}, 41 .. 50),
     frameState(27, 114740, 35, 1, 66491, 0, <<32, 8, 9, 10, 1, -1>>, 28, -1,
        {<<33, 8>>},
        {<<32, 8>>}, 28 .. 37),
     frameState(28, 120950, 36, 1, 141959, 0, <<35, 13, 11, 12, -1, -1>>, 31, -1,
        {<<35, 12>>},
        {<<35, 13>>}, 31 .. 40),
     frameState(29, 127160, 11, 1, 93316, 0, <<0, 32, 8, 7, 1, 1>>, 2, 1,
        {<<3, 4>>},
        {<<0, 32>>}, 2 .. 11),
     frameState(29, 127160, 11, 1, 93319, 0, <<0, 33, 8, 7, 1, 1>>, 2, 1,
        {<<3, 4>>},
        {<<0, 33>>}, 2 .. 11),
     frameState(29, 127160, 11, 1, 93327, 0, <<1, 34, 8, 7, 1, 1>>, 4, -1,
        {<<3, 4>>},
        {<<1, 34>>}, 4 .. 13),
     frameState(29, 127160, 16, 1, 93335, 0, <<44, 33, 9, 8, 1, 1>>, 50, 1,
        {<<11, 20>>},
        {<<44, 33>>}, 50 .. 59),
     frameState(29, 127160, 11, 1, 93335, 0, <<2, 35, 8, 7, 1, 1>>, 4, 1,
        {<<3, 4>>},
        {<<2, 35>>}, 4 .. 13),
     frameState(29, 127160, 16, 1, 93347, 0, <<45, 35, 9, 8, 1, 1>>, 50, 1,
        {<<11, 20>>},
        {<<45, 35>>}, 50 .. 59),
     frameState(29, 127160, 16, 1, 93351, 0, <<46, 35, 9, 8, 1, 1>>, 50, 1,
        {<<11, 20>>},
        {<<46, 35>>}, 50 .. 59),
     frameState(29, 127160, 36, 1, 212255, 0, <<33, 6, 8, 12, -1, 1>>, 27, 1,
        {<<31, 7>>},
        {<<33, 6>>}, 27 .. 36),
     frameState(30, 133640, 37, 1, 71324, 0, <<24, 10, 9, 8, 1, -1>>, 19, -1,
        {<<25, 10>>},
        {<<24, 10>>}, 19 .. 28),
     frameState(31, 140120, 37, 1, 107879, 0, <<46, 6, 11, 8, -1, -1>>, 42, -1,
        {<<45, 5>>},
        {<<46, 6>>}, 42 .. 51),
     frameState(32, 146870, 38, 1, 67019, 0, <<14, 23, 11, 12, -1, -1>>, 9, -1,
        {<<13, 22>>},
        {<<14, 23>>}, 9 .. 18),
     frameState(33, 153620, 38, 1, 131410, 0, <<40, 9, 6, 7, -1, -1>>, 36, -1,
        {<<39, 8>>},
        {<<40, 9>>}, 36 .. 45),
     frameState(34, 160640, 39, 1, 76601, 0, <<32, 5, 9, 6, 1, -1>>, 26, 1,
        {<<31, 4>>},
        {<<32, 5>>}, 26 .. 35),
     frameState(35, 160650, 39, 702, 18, 0, <<28, 30, 9, 13, -1, -1>>, 23, 1,
        allPairs(35),
        {<<28, 30>>}, 23 .. 32),
     frameState(35, 160650, 39, 702, 19, 1, <<28, 30, 9, 13, -1, -1>>, 23, 1,
        allPairs(35),
        {<<28, 30>>}, 23 .. 32),
     frameState(35, 160650, 39, 702, 20, 1, <<28, 30, 9, 13, -1, -1>>, 23, 1,
        allPairs(35),
        {<<28, 30>>}, 23 .. 32),
     frameState(35, 160650, 39, 702, 21, 1, <<28, 30, 9, 13, -1, -1>>, 23, 1,
        allPairs(35),
        {<<28, 30>>}, 23 .. 32),
     frameState(35, 160650, 39, 702, 24, 1, <<28, 30, 9, 13, -1, -1>>, 23, 1,
        allPairs(35),
        {<<28, 30>>}, 23 .. 32),
     frameState(35, 160650, 39, 702, 28, 1, <<28, 30, 9, 13, -1, -1>>, 23, 1,
        allPairs(35),
        {<<28, 30>>}, 23 .. 32),
     frameState(35, 167660, 39, 1, 167408, 0, <<1, 1, 11, 11, -1, -1>>, 0, -1,
        {<<41, 10>>},
        {<<1, 1>>}, 0 .. 9),
     frameState(35, 167660, 39, 1, 182409, 0, <<42, 9, 7, 10, 1, 1>>, 36, 1,
        {<<41, 10>>},
        {<<42, 9>>}, 36 .. 45),
     frameState(36, 174950, 40, 1, 99127, 0, <<0, 1, 10, 8, 1, -1>>, 0, -1,
        {<<19, 21>>},
        {<<0, 1>>}, 0 .. 9),
     frameState(36, 174950, 40, 1, 99309, 0, <<18, 21, 10, 8, 1, 1>>, 14, -1,
        {<<19, 21>>},
        {<<18, 21>>}, 14 .. 23),
     frameState(37, 182240, 40, 1, 172907, 0, <<24, 19, 7, 9, -1, -1>>, 20, -1,
        {<<23, 18>>},
        {<<24, 19>>}, 20 .. 29),
     frameState(38, 189530, 41, 1, 88949, 0, <<10, 16, 10, 12, 1, 1>>, 6, -1,
        {<<11, 16>>},
        {<<10, 16>>}, 6 .. 15),
     frameState(39, 196820, 41, 1, 87054, 0, <<0, 0, 5, 8, -1, 1>>, 0, -1,
        {<<45, 5>>},
        {<<0, 0>>}, 0 .. 9),
     frameState(39, 196820, 41, 1, 98269, 0, <<47, 5, 5, 7, -1, 1>>, 42, -1,
        {<<45, 5>>},
        {<<47, 5>>}, 42 .. 51),
     frameState(40, 204110, 42, 1, 135299, 0, <<37, 7, 12, 5, 1, -1>>, 32, 1,
        {<<37, 6>>},
        {<<37, 7>>}, 32 .. 41),
     frameState(41, 211400, 42, 1, 269594, 0, <<26, 12, 5, 10, 1, 1>>, 20, 1,
        {<<27, 12>>},
        {<<26, 12>>}, 20 .. 29),
     frameState(42, 218690, 42, 1, 119250, 0, <<48, 12, 10, 11, -1, -1>>, 43, 1,
        {<<47, 11>>},
        {<<48, 12>>}, 43 .. 52),
     frameState(43, 225980, 42, 1, 125247, 0, <<52, 29, 8, 6, 1, 1>>, 47, 1,
        {<<53, 29>>},
        {<<52, 29>>}, 47 .. 56),
     frameState(44, 233270, 43, 1, 73376, 0, <<22, 20, 9, 9, 1, -1>>, 18, 1,
        {<<23, 19>>},
        {<<22, 20>>}, 18 .. 27),
     frameState(45, 240560, 43, 1, 60559, 0, <<7, 9, 9, 5, 1, -1>>, 2, 1,
        {<<7, 8>>},
        {<<7, 9>>}, 2 .. 11),
     frameState(46, 247850, 43, 1, 72591, 0, <<25, 7, 8, 9, -1, -1>>, 20, -1,
        {<<23, 7>>},
        {<<25, 7>>}, 20 .. 29),
     frameState(47, 255140, 43, 1, 105263, 0, <<51, 14, 9, 12, -1, 1>>, 46, -1,
        {<<49, 15>>},
        {<<51, 14>>}, 46 .. 55),
     frameState(48, 262430, 44, 1, 83104, 0, <<48, 5, 8, 5, -1, 1>>, 44, 1,
        {<<47, 6>>},
        {<<48, 5>>}, 44 .. 53),
     frameState(49, 269720, 44, 1, 92945, 0, <<27, 4, 9, 6, 1, 1>>, 22, 1,
        {<<27, 5>>},
        {<<27, 4>>}, 22 .. 31),
     frameState(50, 277010, 44, 1, 84364, 0, <<16, 10, 12, 5, -1, -1>>, 11, -1,
        {<<15, 9>>},
        {<<16, 10>>}, 11 .. 20),
     frameState(51, 284300, 44, 1, 68057, 0, <<6, 23, 8, 9, -1, 1>>, 2, -1,
        {<<5, 24>>},
        {<<6, 23>>}, 2 .. 11),
     frameState(51, 284300, 5, 1, 80287, 0, <<10, 35, 8, 6, -1, 1>>, 18, -1,
        {<<25, 6>>},
        {<<10, 35>>}, 18 .. 27),
     frameState(52, 291590, 45, 1, 75707, 0, <<52, 17, 5, 9, -1, 1>>, 47, 1,
        {<<51, 18>>},
        {<<52, 17>>}, 47 .. 56),
     frameState(53, 298880, 45, 1, 200514, 0, <<51, 13, 9, 7, 1, 1>>, 45, 1,
        {<<51, 14>>},
        {<<51, 13>>}, 45 .. 54),
     frameState(54, 306170, 45, 1, 158771, 0, <<10, 12, 12, 6, 1, 1>>, 6, -1,
        {<<11, 13>>},
        {<<10, 12>>}, 6 .. 15),
     frameState(55, 313410, 1, 6, 62378, 0, <<30, 35, 8, 9, 1, 1>>, 50, 1,
        {<<21, 12>>, <<47, 22>>, <<47, 26>>, <<49, 23>>, <<51, 21>>, <<51, 22>>},
        {<<30, 35>>}, 50 .. 59),
     frameState(55, 313460, 45, 1, 72629, 0, <<10, 15, 10, 5, -1, 1>>, 5, 1,
        {<<9, 16>>},
        {<<10, 15>>}, 5 .. 14),
     frameState(56, 320750, 46, 1, 97009, 0, <<4, 5, 6, 10, -1, 1>>, 0, -1,
        {<<3, 6>>},
        {<<4, 5>>}, 0 .. 9),
     frameState(57, 328040, 46, 1, 63023, 0, <<32, 15, 8, 12, -1, -1>>, 27, -1,
        {<<31, 14>>},
        {<<32, 15>>}, 27 .. 36),
     frameState(58, 335330, 46, 1, 75734, 0, <<34, 22, 6, 5, -1, -1>>, 29, -1,
        {<<33, 21>>},
        {<<34, 22>>}, 29 .. 38),
     frameState(58, 335330, 8, 1, 168263, 0, <<58, 0, 6, 12, 1, -1>>, 50, 1,
        {<<7, 6>>},
        {<<58, 0>>}, 50 .. 59),
     frameState(58, 335330, 8, 1, 168683, 0, <<7, 32, 6, 12, 1, 1>>, 13, -1,
        {<<7, 6>>},
        {<<7, 32>>}, 13 .. 22),
     frameState(58, 335330, 8, 1, 168689, 0, <<8, 33, 6, 12, 1, 1>>, 11, -1,
        {<<7, 6>>},
        {<<8, 33>>}, 11 .. 20),
     frameState(58, 335330, 8, 1, 168695, 0, <<9, 33, 6, 12, 1, 1>>, 10, -1,
        {<<7, 6>>},
        {<<9, 33>>}, 10 .. 19),
     frameState(58, 335330, 8, 1, 168701, 0, <<10, 34, 6, 12, 1, 1>>, 10, 1,
        {<<7, 6>>},
        {<<10, 34>>}, 10 .. 19),
     frameState(58, 335330, 8, 1, 168707, 0, <<11, 34, 6, 12, 1, 1>>, 11, 1,
        {<<7, 6>>},
        {<<11, 34>>}, 11 .. 20),
     frameState(58, 335330, 8, 1, 168713, 0, <<12, 35, 6, 12, 1, 1>>, 13, 1,
        {<<7, 6>>},
        {<<12, 35>>}, 13 .. 22),
     frameState(58, 335330, 8, 1, 168719, 0, <<13, 35, 6, 12, 1, 1>>, 14, 1,
        {<<7, 6>>},
        {<<13, 35>>}, 14 .. 23),
     frameState(59, 342620, 46, 1, 263753, 0, <<55, 16, 6, 11, -1, 1>>, 50, 1,
        {<<53, 16>>},
        {<<55, 16>>}, 50 .. 59),
     frameState(60, 349910, 46, 1, 91052, 0, <<14, 6, 12, 9, 1, -1>>, 10, 1,
        {<<13, 5>>},
        {<<14, 6>>}, 10 .. 19),
     frameState(61, 357200, 46, 1, 86449, 0, <<10, 25, 10, 9, 1, -1>>, 6, -1,
        {<<11, 25>>},
        {<<10, 25>>}, 6 .. 15)}

\* States later in a level, after lives were lost: the bottom row still
\* holds the Ball tile of each lost ball (the life reset of lines 475-493
\* does not clear it: see LifeStart).
FrameStatesLater ==
    {frameState(1, 20, 4, 241, 271, 0, <<0, 34, 9, 8, -1, 1>>, 40, 1,
        allPairs(1) \ {<<21, 11>>, <<55, 11>>},
        {<<0, 34>>, <<0, 35>>}, 40 .. 59),
     frameState(1, 20, 4, 241, 305, 0, <<59, 34, 10, 9, -1, 1>>, 38, 1,
        allPairs(1) \ {<<7, 11>>, <<39, 11>>},
        {<<59, 34>>, <<59, 35>>}, 38 .. 57),
     frameState(1, 20, 4, 241, 340, 0, <<1, 35, 11, 10, -1, 1>>, 8, -1,
        allPairs(1) \ {<<19, 11>>, <<21, 11>>},
        {<<0, 35>>, <<1, 35>>}, 8 .. 27),
     frameState(1, 20, 4, 241, 359, 0, <<58, 34, 12, 10, 1, 1>>, 0, 1,
        allPairs(1) \ {<<39, 10>>, <<39, 11>>},
        {<<58, 34>>, <<59, 35>>}, 0 .. 19),
     frameState(1, 20, 4, 241, 374, 0, <<54, 35, 15, 11, 1, 1>>, 20, 0,
        allPairs(1) \ {<<37, 11>>, <<41, 11>>},
        {<<54, 35>>, <<55, 35>>}, 20 .. 39),
     frameState(1, 30, 4, 240, 379, 0, <<59, 34, 12, 10, 1, 1>>, 20, 0,
        allPairs(1) \ {<<37, 10>>, <<39, 10>>, <<39, 11>>},
        {<<59, 34>>, <<59, 35>>}, 20 .. 39),
     frameState(1, 20, 4, 241, 395, 0, <<18, 34, 11, 11, -1, 1>>, 20, 0,
        allPairs(1) \ {<<41, 10>>, <<41, 11>>},
        {<<17, 35>>, <<18, 34>>}, 20 .. 39),
     frameState(1, 20, 4, 241, 413, 0, <<44, 35, 9, 12, -1, 1>>, 0, -1,
        allPairs(1) \ {<<7, 11>>, <<43, 11>>},
        {<<43, 35>>, <<44, 35>>}, 0 .. 19),
     frameState(1, 20, 4, 241, 449, 0, <<58, 35, 6, 13, 1, 1>>, 21, -1,
        allPairs(1) \ {<<7, 11>>, <<39, 11>>},
        {<<58, 35>>, <<59, 35>>}, 21 .. 40),
     frameState(1, 20, 4, 241, 475, 0, <<54, 34, 7, 14, 1, 1>>, 21, 1,
        allPairs(1) \ {<<7, 11>>, <<37, 11>>},
        {<<54, 34>>, <<55, 35>>}, 21 .. 40),
     frameState(1, 20, 4, 241, 475, 0, <<0, 34, 15, 14, 1, 1>>, 39, -1,
        allPairs(1) \ {<<19, 11>>, <<21, 11>>},
        {<<0, 34>>, <<0, 35>>}, 39 .. 58),
     frameState(1, 20, 4, 241, 539, 0, <<16, 34, 14, 15, -1, 1>>, 20, 0,
        allPairs(1) \ {<<41, 10>>, <<41, 11>>},
        {<<16, 34>>, <<16, 35>>}, 20 .. 39),
     frameState(1, 20, 4, 241, 569, 0, <<1, 34, 6, 15, -1, 1>>, 20, 0,
        allPairs(1) \ {<<21, 11>>, <<55, 10>>},
        {<<0, 35>>, <<1, 34>>}, 20 .. 39),
     frameState(1, 2420, 3, 1, 4489, 0, <<44, 35, 12, 10, -1, 1>>, 0, -1,
        {<<11, 8>>},
        {<<3, 35>>, <<44, 35>>, <<48, 35>>}, 0 .. 19),
     frameState(1, 2420, 4, 1, 38099, 0, <<57, 34, 11, 5, -1, 1>>, 22, -1,
        {<<31, 3>>},
        {<<57, 34>>, <<57, 35>>}, 22 .. 41),
     frameState(1, 2420, 4, 1, 48559, 0, <<47, 34, 12, 10, 1, 1>>, 0, -1,
        {<<3, 11>>},
        {<<47, 34>>, <<47, 35>>}, 0 .. 19),
     frameState(15, 51560, 20, 1, 85919, 0, <<36, 35, 12, 8, 1, 1>>, 0, -1,
        {<<5, 6>>},
        {<<29, 35>>, <<36, 35>>}, 0 .. 9),
     frameState(27, 114740, 20, 1, 56129, 0, <<49, 35, 6, 6, 1, 1>>, 50, 1,
        {<<49, 16>>},
        {<<18, 35>>, <<49, 35>>, <<55, 35>>}, 50 .. 59),
     frameState(30, 133640, 14, 1, 15359, 0, <<13, 35, 11, 10, -1, 1>>, 42, -1,
        {<<17, 9>>},
        {<<13, 35>>, <<20, 35>>, <<34, 35>>}, 42 .. 51),
     frameState(41, 211390, 1, 2, 20236, 0, <<39, 35, 8, 7, 1, 1>>, 0, -1,
        {<<43, 11>>, <<45, 13>>},
        {<<6, 35>>, <<39, 35>>}, 0 .. 9),
     frameState(53, 298880, 6, 1, 71771, 0, <<16, 35, 8, 12, 1, 1>>, 7, 1,
        {<<23, 5>>},
        {<<16, 35>>, <<37, 35>>}, 7 .. 16),
     frameState(56, 320750, 3, 1, 67902, 0, <<16, 35, 5, 11, -1, 1>>, 50, 1,
        {<<21, 15>>},
        {<<16, 35>>, <<27, 35>>}, 50 .. 59)}

\* The remainders generateBoard drew for level lv in the recorded runs.
frameDraws(lv) ==
    [c \in colourPairs |-> ((c[1] \div 2) + 2 * c[2] + lv) % 3]

\* The board of a recorded state; the program's board was
\* boardUnder(frameBoard(s), frameDraws(s.level)).
frameBoard(s) ==
    LET cell(x, y) ==
            IF <<x, y>> \in s.balls THEN BALL
            ELSE IF y = paddleY /\ x \in s.tiles THEN PADDLE
            ELSE IF <<pairStart(x), y>> \in s.pairs
                THEN drawnBlock[<<pairStart(x), y>>]
            ELSE EMPTY
    IN  [x \in Cols |-> [y \in Rows |-> cell(x, y)]]

\* The top of a frame in the middle of a run.
InitFrame(states) ==
    \E s \in states :
        /\ pc = "input"
        /\ level = s.level
        /\ score = s.score
        /\ lives = s.lives
        /\ blocksLeft = s.blocksLeft
        /\ frame = s.frame
        /\ isPaused = s.isPaused
        /\ ball = [x |-> s.ball[1], y |-> s.ball[2],
                   xVelocity |-> s.ball[3], yVelocity |-> s.ball[4],
                   xDirection |-> s.ball[5], yDirection |-> s.ball[6]]
        /\ paddle = [paddleStart(s.level) EXCEPT !.x = s.px, !.direction = s.pdir]
        /\ board = frameBoard(s)
        /\ ret = 1
        /\ oob = FALSE
        /\ ticks = 0

\* ------------------------------------------------------------ actions
\* play(), lines 409-463: the paddle, the ball's cell, the bonus lives and
\* the fresh board of the level.
Play ==
    /\ pc = "main"
    /\ LET p == paddleStart(level)
           b == [noBall EXCEPT !.x = ballStartX, !.y = ballStartY(level)]
           g == generateBoard(level, maxBlockYOf(level), p, b)
       IN  /\ paddle' = p
           /\ ball' = b
           /\ board' = g.board
           /\ blocksLeft' = g.blocks
    /\ lives' = lives + bonusLives(level)
    /\ pc' = "life"
    /\ UNCHANGED <<level, score, frame, isPaused, ret, oob, ticks>>

\* The remainders drawn at the start of a life: rand() % 10, rand() % 10,
\* rand() % 2.
lifeDraws == {<<a, c, d>> : a \in 0 .. 9, c \in 0 .. 9, d \in 0 .. 1}

\* The life reset drawing the periods from 7 (rand() % 10 + 7): the highest
\* period of a fresh ball must tell this variant from the code.
lifeResetFromSeven(lv, p, bd, rnd) ==
    LET b1 == [x |-> WIDTH \div 2,
               y |-> (maxBlockYOf(lv) + p.y) \div 2,
               xVelocity |-> rnd[1] + 7,
               yVelocity |-> rnd[2] + 7,
               xDirection |-> IF rnd[3] = 0 THEN 1 ELSE -1,
               yDirection |-> -1]
        p1 == [p EXCEPT !.x = (WIDTH - p.len) \div 2, !.direction = 0,
                        !.lastDirection = 0]
        bd1 == [x \in Cols |-> [bd[x] EXCEPT ![p.y] =
                   IF x >= p1.x /\ x < p1.x + p1.len THEN PADDLE ELSE EMPTY]]
    IN  [ball |-> b1, paddle |-> p1, board |-> bd1]

\* The life reset drawing the periods as the paddle bounce does
\* (rand() % 10 + 5): the lowest period of a fresh ball must tell this
\* variant from the code.
lifeResetFromFive(lv, p, bd, rnd) ==
    LET b1 == [x |-> WIDTH \div 2,
               y |-> (maxBlockYOf(lv) + p.y) \div 2,
               xVelocity |-> rnd[1] + 5,
               yVelocity |-> rnd[2] + 5,
               xDirection |-> IF rnd[3] = 0 THEN 1 ELSE -1,
               yDirection |-> -1]
        p1 == [p EXCEPT !.x = (WIDTH - p.len) \div 2, !.direction = 0,
                        !.lastDirection = 0]
        bd1 == [x \in Cols |-> [bd[x] EXCEPT ![p.y] =
                   IF x >= p1.x /\ x < p1.x + p1.len THEN PADDLE ELSE EMPTY]]
    IN  [ball |-> b1, paddle |-> p1, board |-> bd1]

\* Lines 475-493: the ball and the paddle are reset, the paddle's row is
\* cleared and the paddle drawn again.
lifeReset(lv, p, bd, rnd) ==
    LET b1 == [x |-> WIDTH \div 2,
               y |-> (maxBlockYOf(lv) + p.y) \div 2,
               xVelocity |-> rnd[1] + 6,
               yVelocity |-> rnd[2] + 6,
               xDirection |-> IF rnd[3] = 0 THEN 1 ELSE -1,
               yDirection |-> -1]
        p1 == [p EXCEPT !.x = (WIDTH - p.len) \div 2, !.direction = 0,
                        !.lastDirection = 0]
        bd1 == [x \in Cols |-> [bd[x] EXCEPT ![p.y] =
                   IF x >= p1.x /\ x < p1.x + p1.len THEN PADDLE ELSE EMPTY]]
    IN  [ball |-> b1, paddle |-> p1, board |-> bd1]

\* The life loop's head (line 467) and the start of a life (lines 468-501);
\* with no life left the loop ends and play() returns 1 (line 573).
LifeStart ==
    /\ pc = "life"
    /\ IF lives > 0
        THEN \E rnd \in lifeDraws :
                LET r == lifeReset(level, paddle, board, rnd)
                IN  /\ ball' = r.ball
                    /\ paddle' = r.paddle
                    /\ board' = r.board
                    /\ frame' = 0
                    /\ isPaused' = 0
                    /\ pc' = "input"
        ELSE /\ pc' = "won"
             /\ UNCHANGED <<ball, paddle, board, frame, isPaused>>
    /\ ticks' = ticks + 1
    /\ UNCHANGED <<level, score, lives, blocksLeft, ret, oob>>

\* Lines 510-552 of one frame: the tick, frame++, the key switch and the
\* paddle step.
Input ==
    /\ pc = "input"
    /\ ticks < MaxTicks
    /\ \E key \in Keys :
        LET k == pollKey(key, paddle, isPaused)
            step == /\ k.isPaused = 0
                    /\ k.paddle.direction # 0
                    /\ (frame + 1) % k.paddle.velocity = 0
            m == IF step /\ ~k.quit THEN movePaddle(k.paddle, board)
                 ELSE [paddle |-> k.paddle, board |-> board]
        IN  /\ frame' = frame + 1
            /\ isPaused' = k.isPaused
            /\ paddle' = m.paddle
            /\ board' = m.board
            /\ pc' = IF k.quit THEN "lost" ELSE "ball"
    /\ ticks' = ticks + 1
    /\ UNCHANGED <<level, score, lives, blocksLeft, ball, ret, oob>>

\* The ball step with the test after a lost life off by one (< 0 for <= 0):
\* the end of the run with the last life must tell this variant from the
\* code.
BallStepLastLifeGoesOn ==
    /\ pc = "ball"
    /\ IF isPaused = 0
        THEN \E rnd \in ballDraws(ballBranch(ball, board, frame)) :
                LET r == checkBall(ball, board, blocksLeft, score, frame, rnd)
                IN  /\ ball' = r.ball
                    /\ board' = r.board
                    /\ blocksLeft' = r.blocksLeft
                    /\ score' = r.score
                    /\ ret' = r.ret
                    /\ oob' = (oob \/ r.oob)
                    /\ lives' = IF r.ret = 0 THEN lives - 1 ELSE lives
                    /\ \E survives \in (IF r.oob THEN BOOLEAN ELSE {TRUE}) :
                        pc' = IF ~survives THEN "undefined"
                              ELSE IF r.ret = 0
                                  THEN (IF lives - 1 < 0 THEN "lost" ELSE "life")
                              ELSE IF r.blocksLeft = 0 THEN "won"
                              ELSE "input"
        ELSE /\ pc' = IF blocksLeft = 0 THEN "won" ELSE "input"
             /\ UNCHANGED <<ball, board, blocksLeft, score, ret, oob, lives>>
    /\ UNCHANGED <<level, frame, isPaused, paddle, ticks>>

\* Lines 554-570 of one frame: the ball step when not paused; a lost life
\* (lives--, break, and return 0 when none is left); the level is won when
\* no block is left (return 1).  After a write outside the board the
\* program either goes on with its state or does not survive.
BallStep ==
    /\ pc = "ball"
    /\ IF isPaused = 0
        THEN \E rnd \in ballDraws(ballBranch(ball, board, frame)) :
                LET r == checkBall(ball, board, blocksLeft, score, frame, rnd)
                IN  /\ ball' = r.ball
                    /\ board' = r.board
                    /\ blocksLeft' = r.blocksLeft
                    /\ score' = r.score
                    /\ ret' = r.ret
                    /\ oob' = (oob \/ r.oob)
                    /\ lives' = IF r.ret = 0 THEN lives - 1 ELSE lives
                    /\ \E survives \in (IF r.oob THEN BOOLEAN ELSE {TRUE}) :
                        pc' = IF ~survives THEN "undefined"
                              ELSE IF r.ret = 0
                                  THEN (IF lives - 1 <= 0 THEN "lost" ELSE "life")
                              ELSE IF r.blocksLeft = 0 THEN "won"
                              ELSE "input"
        ELSE /\ pc' = IF blocksLeft = 0 THEN "won" ELSE "input"
             /\ UNCHANGED <<ball, board, blocksLeft, score, ret, oob, lives>>
    /\ UNCHANGED <<level, frame, isPaused, paddle, ticks>>

\* main()'s loop body with the lives set back to STARTING_LIVES for the
\* next level: the lives carried over must tell this variant from the code.
NextLevelFreshLives ==
    /\ pc = "won"
    /\ level' = level + 1
    /\ lives' = STARTING_LIVES
    /\ pc' = "main"
    /\ UNCHANGED <<score, blocksLeft, frame, isPaused, ball, paddle,
                   board, ret, oob, ticks>>

\* main(), lines 700-702: play() returned 1.
NextLevel ==
    /\ pc = "won"
    /\ level' = level + 1
    /\ pc' = "main"
    /\ UNCHANGED <<score, lives, blocksLeft, frame, isPaused, ball, paddle,
                   board, ret, oob, ticks>>

\* main(), lines 705-713: play() returned 0.
GameOver ==
    /\ pc = "lost"
    /\ pc' = "done"
    /\ UNCHANGED <<level, score, lives, blocksLeft, frame, isPaused, ball,
                   paddle, board, ret, oob, ticks>>

Next == Play \/ LifeStart \/ Input \/ BallStep \/ NextLevel \/ GameOver

\* From construction and from the recorded states without a lost ball's
\* tile.
Init == InitMain \/ InitFrame(FrameStates)

Spec == Init /\ [][Next]_vars

\* The same, and from the recorded states later in a level.
InitLater == Init \/ InitFrame(FrameStatesLater)

SpecLater == InitLater /\ [][Next]_vars

\* ------------------------------------------------------------ claims
\* Inside the frame loop of a life.
InPlay == pc \in {"input", "ball"}

\* Inside play(): between lives or inside the frame loop.
InLevel == pc \in {"life", "input", "ball"}

tilesOf(bd, tiles) == {c \in Cols \X Rows : bd[c[1]][c[2]] \in tiles}

\* The pairs of the level of which a cell still holds a Block tile.
pairsOnBoard ==
    {c \in allPairs(level) :
        board[c[1]][c[2]] \in Blocks \/ board[c[1] + 1][c[2]] \in Blocks}

\* The cells a step changes.
changedCells == {c \in Cols \X Rows : board'[c[1]][c[2]] # board[c[1]][c[2]]}

\* The ball step of this frame runs checkBall.
BallRuns == pc = "ball" /\ isPaused = 0

\* C1: during active play exactly one cell holds the Ball tile, and it is
\* the cell (ball.x, ball.y).
C1_OneBallTile ==
    InPlay => tilesOf(board, {BALL}) = {<<ball.x, ball.y>>}

\* C2: no access of the board by checkBall, destroyBlock, moveBall or
\* movePaddle is outside [0, WIDTH) x [0, HEIGHT).
C2_BoardAccessInBounds == oob = FALSE

\* C3: within a level the remaining-block counter equals the number of
\* block pairs on the board, and a level is won only on a board without
\* Block tiles.
C3_CounterIsPairsOnBoard ==
    /\ InLevel => blocksLeft = Cardinality(pairsOnBoard)
    /\ pc = "won" => tilesOf(board, Blocks) = {}

\* C4: every call of destroyBlock (a ball step that changes the counter)
\* turns exactly two cells from a Block tile to Empty, in one row, at
\* columns 2k+1 and 2k+2; it is never called on a cell without a Block tile.
C4_DestroyTakesOnePair ==
    [][(BallRuns /\ blocksLeft' # blocksLeft) =>
          /\ board[nextX(ball, frame)][nextY(ball, frame)] \in Blocks
          /\ Cardinality(changedCells) = 2
          /\ \A c \in changedCells :
                /\ board[c[1]][c[2]] \in Blocks
                /\ board'[c[1]][c[2]] = EMPTY
                /\ c[2] = nextY(ball, frame)
          /\ \E k \in 0 .. WIDTH :
                {c[1] : c \in changedCells} = {2 * k + 1, 2 * k + 2}]_vars

\* C5: during play the Paddle tiles are exactly the paddle.len cells from
\* (paddle.x, paddle.y) to the right.
C5_PaddleTilesAreSpan ==
    InPlay => tilesOf(board, {PADDLE}) =
                  {<<x, paddle.y>> : x \in paddle.x .. (paddle.x + paddle.len - 1)}

\* C6: the paddle's left edge stays in [0, WIDTH - paddle.len]; a paddle
\* step against a wall leaves paddle.x and the board as they are, and the
\* direction stays set.
PaddleInBounds == InLevel => (paddle.x >= 0 /\ paddle.x <= WIDTH - paddle.len)

PaddleStepDue ==
    /\ pc = "input" /\ pc' = "ball"
    /\ isPaused' = 0
    /\ paddle'.direction # 0
    /\ frame' % paddle.velocity = 0

StepAgainstWall ==
    /\ PaddleStepDue
    /\ \/ paddle'.direction < 0 /\ paddle.x = 0
       \/ paddle'.direction > 0 /\ paddle.x = WIDTH - paddle.len

C6_PaddleStaysInside ==
    /\ []PaddleInBounds
    /\ [][StepAgainstWall =>
            /\ paddle'.x = paddle.x
            /\ board' = board
            /\ paddle'.direction # 0
            /\ (isPaused = 0 /\ paddle.direction * paddle'.direction > 0
                    => paddle'.direction = paddle.direction)]_vars

\* A step to the left was just rejected at the left wall of a paddle of
\* length 10.
C6_Witness ==
    /\ pc = "ball" /\ isPaused = 0 /\ frame % paddle.velocity = 0
    /\ paddle.x = 0 /\ paddle.direction = -1 /\ paddle.len = 10

\* C7: a ball in a top corner, both axes due and both directions pointing
\* out of the board, has both directions inverted by this one call of
\* checkBall and stays where it is.
InCornerGoingOut ==
    /\ BallRuns
    /\ ball.y = 0 /\ ball.yDirection = -1
    /\ \/ ball.x = 0 /\ ball.xDirection = -1
       \/ ball.x = WIDTH - 1 /\ ball.xDirection = 1
    /\ frame % ball.xVelocity = 0 /\ frame % ball.yVelocity = 0

C7_CornerInvertsBoth ==
    [][InCornerGoingOut =>
          /\ ball'.xDirection = -ball.xDirection
          /\ ball'.yDirection = -ball.yDirection
          /\ ball'.x = ball.x /\ ball'.y = ball.y]_vars

\* The ball is due on an axis and the cell it would enter holds the Paddle
\* tile.
CandidateIsPaddle ==
    /\ BallRuns
    /\ <<nextX(ball, frame), nextY(ball, frame)>> # <<ball.x, ball.y>>
    /\ inBoard(nextX(ball, frame), nextY(ball, frame))
    /\ board[nextX(ball, frame)][nextY(ball, frame)] = PADDLE

\* C8: when the candidate cell is inside the board and holds the Paddle
\* tile, checkBall inverts yDirection, leaves the ball where it is and
\* draws both periods from 5 .. 12.
C8_PaddleHitBounces ==
    [][CandidateIsPaddle =>
          /\ ball'.yDirection = -ball.yDirection
          /\ ball'.x = ball.x /\ ball'.y = ball.y
          /\ ball'.xVelocity \in 5 .. 12
          /\ ball'.yVelocity \in 5 .. 12]_vars

\* C9: the pause key only toggles the paused flag: it leaves
\* paddle.direction and paddle.lastDirection as they are.
C9_PauseOnlyToggles ==
    [][(pc = "input" /\ isPaused' # isPaused) =>
          /\ paddle'.direction = paddle.direction
          /\ paddle'.lastDirection = paddle.lastDirection]_vars

\* C10: checkBall returns 0 and changes nothing when the candidate y is
\* >= HEIGHT, whatever the candidate x; in every other case it returns 1.
C10_ExitIffBelowBoard ==
    [][BallRuns =>
          IF nextY(ball, frame) >= HEIGHT
              THEN /\ ret' = 0
                   /\ UNCHANGED <<ball, board, score, blocksLeft>>
              ELSE ret' = 1]_vars

\* The ball has just left through the bottom with its candidate x outside
\* the board (x = 0, both axes due, moving left and down).
C10_Witness ==
    /\ pc \in {"life", "lost"} /\ ret = 0
    /\ ball.x = 0 /\ ball.xDirection = -1 /\ frame % ball.xVelocity = 0
    /\ ball.y = HEIGHT - 1 /\ ball.yDirection = 1 /\ frame % ball.yVelocity = 0

\* C11: a ball step that returns 0 takes exactly one life; with a life left
\* the life loop goes on in the same level, with none the run ends in game
\* over.  lives is never negative, and no life is played with lives = 0.
C11_ExitTakesOneLife ==
    /\ [](lives >= 0)
    /\ [](InPlay => lives > 0)
    /\ [][(BallRuns /\ ret' = 0) =>
            /\ lives' = lives - 1
            /\ level' = level
            /\ pc' = IF lives' > 0 THEN "life" ELSE "lost"]_vars
    /\ [][(BallRuns /\ ret' # 0) => lives' = lives]_vars
    /\ [][(pc = "life" /\ lives > 0) =>
            (pc' = "input" /\ level' = level /\ lives' = lives)]_vars
    /\ [][pc = "lost" => (pc' = "done" /\ level' = level /\ lives' = lives)]_vars

\* The last life has just been lost: the run is over with no life left.
C11_Witness == pc = "lost" /\ ret = 0 /\ lives = 0 /\ isPaused = 0

\* C12: the ball step in which the remaining-block counter becomes 0 ends
\* the level as won and takes no life; main() then starts the next level
\* with level + 1, the same score and the lives plus the bonus of the new
\* level.  The counter is never negative.
C12_WonWhenCounterIsZero ==
    /\ [](blocksLeft >= 0)
    /\ [][(BallRuns /\ blocksLeft # 0 /\ blocksLeft' = 0) =>
            (pc' = "won" /\ ret' = 1 /\ lives' = lives /\ level' = level)]_vars
    /\ [][pc = "won" =>
            (pc' = "main" /\ level' = level + 1 /\ score' = score
                /\ lives' = lives)]_vars
    /\ [][pc = "main" =>
            (pc' = "life" /\ level' = level /\ score' = score
                /\ lives' = lives + bonusLives(level))]_vars

\* A level after the first has just been set up: the level before it was
\* won (checkBall's last return was 1) and all of its pairs are counted.
C12_Witness ==
    /\ pc = "life" /\ ret = 1 /\ level > 1
    /\ blocksLeft = Cardinality(allPairs(level))

\* The candidate cell of the ball step.
candidate == <<nextX(ball, frame), nextY(ball, frame)>>

\* The ball step of this frame calls destroyBlock on a cell that holds a
\* Block tile.
StrikesBlock ==
    /\ BallRuns
    /\ ballBranch(ball, board, frame) = "block"
    /\ board[candidate[1]][candidate[2]] \in Blocks

\* The other cell of the pair of a struck cell: x + 1 for odd x, x - 1 for
\* even x.
partnerOf(c) == <<IF c[1] % 2 = 1 THEN c[1] + 1 ELSE c[1] - 1, c[2]>>

\* C13: destroyBlock on a cell of a block pair sets the struck cell and its
\* partner to Empty, takes 1 from the remaining-block counter, adds 10 to
\* the score and changes no other cell of the board; striking (9, 5) empties
\* (9, 5) and (10, 5).
C13_DestroyBlockEffect ==
    /\ [][StrikesBlock =>
            /\ board[partnerOf(candidate)[1]][partnerOf(candidate)[2]] =
                   board[candidate[1]][candidate[2]]
            /\ changedCells = {candidate, partnerOf(candidate)}
            /\ \A c \in changedCells : board'[c[1]][c[2]] = EMPTY
            /\ blocksLeft' = blocksLeft - 1
            /\ score' = score + 10]_vars
    /\ [][(StrikesBlock /\ candidate = <<9, 5>>) =>
            /\ changedCells = {<<9, 5>>, <<10, 5>>}
            /\ board'[9][5] = EMPTY /\ board'[10][5] = EMPTY]_vars

\* The cell behind the ball and the cell ahead of it, along the axes due in
\* this frame.
cellBehind ==
    <<2 * ball.x - nextX(ball, frame), 2 * ball.y - nextY(ball, frame)>>

\* A block has just been struck: the ball step of this frame has run, the
\* ball is due, the cell it faces and that cell's partner are Empty, and
\* yet the ball has not come from the cell behind it, which holds a Block
\* tile (a move would have left that cell Empty, and no wall or paddle is
\* next to a block).
C13_Witness ==
    /\ pc = "input" /\ ticks >= 1 /\ frame >= 1 /\ isPaused = 0
    /\ candidate # <<ball.x, ball.y>>
    /\ inBoard(candidate[1], candidate[2])
    /\ pairStart(candidate[1]) # -1
    /\ board[candidate[1]][candidate[2]] = EMPTY
    /\ board[partnerOf(candidate)[1]][partnerOf(candidate)[2]] = EMPTY
    /\ inBoard(cellBehind[1], cellBehind[2])
    /\ board[cellBehind[1]][cellBehind[2]] \in Blocks

\* The schedule of extra lives, band by band.
bonusSchedule(lv) ==
    CASE lv <= 1 -> 0
      [] lv \in 2 .. 9 -> 2
      [] lv \in 10 .. 19 -> 1
      [] lv \in 20 .. 39 -> IF lv % 2 = 0 THEN 1 ELSE 0
      [] lv \in 40 .. 59 -> IF lv % 4 = 0 THEN 1 ELSE 0
      [] OTHER -> 0

\* C14: the start of a level adds to lives 0 for level <= 1, 2 for levels
\* 2 .. 9, 1 for levels 10 .. 19, 1 for the even levels of 20 .. 39, 1 for
\* the levels of 40 .. 59 divisible by 4 and 0 otherwise (level 7: 2, level
\* 15: 1); lives grows at no other step, so once per level and not once per
\* life.
C14_BonusSchedule ==
    /\ [][pc = "main" => lives' = lives + bonusSchedule(level)]_vars
    /\ [][(pc = "main" /\ level = 7) => lives' = lives + 2]_vars
    /\ [][(pc = "main" /\ level = 15) => lives' = lives + 1]_vars
    /\ [][pc # "main" => lives' <= lives]_vars
    /\ [][pc = "life" => lives' = lives]_vars

\* Level 15 has just been set up after level 14 was won.
C14_Witness == pc = "life" /\ ret = 1 /\ level = 15 /\ lives >= 2

\* play() has just set the level up: generateBoard has returned and no life
\* of the level has started.
FreshBoard == pc = "life" /\ ret = 1

\* The first cells of the pairs of a fresh board: odd x with
\* 3 <= x < WIDTH - 3, and 3 <= y < HEIGHT/3 + min(level/2, HEIGHT/2).
freshPairs ==
    {c \in Cols \X Rows :
        /\ c[1] % 2 = 1 /\ 3 <= c[1] /\ c[1] < WIDTH - 3
        /\ 3 <= c[2] /\ c[2] < (HEIGHT \div 3) + min(level \div 2, HEIGHT \div 2)}

freshBlockCells == freshPairs \cup {<<c[1] + 1, c[2]>> : c \in freshPairs}

\* C15: on the fresh board of every level the value generateBoard returned
\* is the number of pairs on the board; the pairs are one same-coloured
\* pair (x, x + 1) per odd x in [3, WIDTH - 3) and row in [3, maxBlockY),
\* maxBlockY <= 5 * HEIGHT / 6; the paddle's span and the ball's cell are
\* not under a block, and every other cell is Empty.  Same-coloured: the
\* two tiles of a pair are equal, the tiles of one draw, whatever the
\* draws come out as; in particular both are Red, both Blue or both Green
\* as the pair drew under the outcomes frameDraws(0), frameDraws(1) and
\* frameDraws(2), in which every pair draws each remainder once.
C15_FreshBoard ==
    FreshBoard =>
        /\ blocksLeft = Cardinality(freshPairs)
        /\ 2 * blocksLeft = Cardinality(tilesOf(board, Blocks))
        /\ (HEIGHT \div 3) + min(level \div 2, HEIGHT \div 2) <= (5 * HEIGHT) \div 6
        /\ tilesOf(board, Blocks) = freshBlockCells
        /\ \A c \in freshPairs : board[c[1] + 1][c[2]] = board[c[1]][c[2]]
        /\ \A k \in Remainders :
              LET d == frameDraws(k)
                  programBoard == boardUnder(board, d)
              IN  \A c \in freshPairs :
                      /\ programBoard[c[1]][c[2]] = blockTile(d[c])
                      /\ programBoard[c[1] + 1][c[2]] = blockTile(d[c])
        /\ tilesOf(board, {BALL}) = {<<ball.x, ball.y>>}
        /\ tilesOf(board, {PADDLE}) =
               {<<x, paddle.y>> : x \in paddle.x .. (paddle.x + paddle.len - 1)}
        /\ Cardinality(tilesOf(board, {PADDLE})) = paddle.len

\* The fresh board of a level in which the blocks reach their lowest row
\* (level >= 36: maxBlockY = 5 * HEIGHT / 6); the last pair of that row
\* holds the two tiles of its draw.
C15_Witness ==
    /\ FreshBoard
    /\ level >= 36
    /\ blocksLeft = ((WIDTH - 6) \div 2) * ((5 * HEIGHT) \div 6 - 3)
    /\ board[WIDTH - 5][(5 * HEIGHT) \div 6 - 1] \in Blocks
    /\ board[WIDTH - 4][(5 * HEIGHT) \div 6 - 1] =
           board[WIDTH - 5][(5 * HEIGHT) \div 6 - 1]

\* The frame's key was q / Q: play() returned 0 from the switch.  (The
\* other way to "lost", the loss of the last life, is a ball step.)
QuitPolled == pc = "input" /\ pc' = "lost"

\* C16: q / Q polled in a frame, paused or not, ends the run in that frame:
\* no paddle step, no ball step, no life taken, and after it only main()'s
\* game-over message, with no further frame and no next level.
C16_QuitEndsRun ==
    /\ [](pc = "input" =>
            /\ pollKey("q", paddle, isPaused).quit
            /\ \A key \in Keys \ {"q"} : ~pollKey(key, paddle, isPaused).quit)
    /\ [][QuitPolled =>
            /\ frame' = frame + 1
            /\ UNCHANGED <<level, score, lives, blocksLeft, isPaused, ball,
                           paddle, board, ret>>]_vars
    /\ [][pc = "lost" =>
            /\ pc' = "done"
            /\ UNCHANGED <<level, score, lives, blocksLeft, frame, isPaused,
                           ball, paddle, board>>]_vars
    /\ [][pc # "done"]_vars

\* The run has ended with lives left (so by q / Q, not by the last ball), in
\* a frame in which the paddle and the ball were both due to move.
C16_Witness ==
    /\ pc = "done" /\ lives > 0 /\ isPaused = 0
    /\ paddle.direction # 0 /\ paddle.x > 0 /\ paddle.x < WIDTH - paddle.len
    /\ frame % paddle.velocity = 0
    /\ frame % ball.xVelocity = 0 /\ frame % ball.yVelocity = 0

\* The candidate cell is another cell than the ball's, inside the board and
\* Empty: checkBall's open move.
OpenMove ==
    /\ candidate # <<ball.x, ball.y>>
    /\ inBoard(candidate[1], candidate[2])
    /\ board[candidate[1]][candidate[2]] = EMPTY

\* C17: checkBall changes ball.x / ball.y only in the open move: then the
\* ball is at the candidate cell, one step at most on each axis, its old
\* cell is Empty, the candidate cell holds Ball and nothing else of the
\* board or of the ball has changed.  In every other case the ball stays
\* where it is.
C17_OnlyOpenMoveMoves ==
    [][BallRuns =>
          IF OpenMove
              THEN /\ <<ball'.x, ball'.y>> = candidate
                   /\ ball'.x - ball.x \in {-1, 0, 1}
                   /\ ball'.y - ball.y \in {-1, 0, 1}
                   /\ board'[ball.x][ball.y] = EMPTY
                   /\ board'[ball'.x][ball'.y] = BALL
                   /\ changedCells \subseteq {<<ball.x, ball.y>>, candidate}
                   /\ ball' = [ball EXCEPT !.x = candidate[1], !.y = candidate[2]]
              ELSE ball'.x = ball.x /\ ball'.y = ball.y]_vars

\* The ball has just moved diagonally in the open field between the blocks
\* and the paddle: the ball step of this frame has run with both axes due,
\* the cell behind the ball is Empty, and no block, wall or paddle is next
\* to the ball that it could have bounced off instead.
C17_Witness ==
    /\ pc = "input" /\ ticks >= 1 /\ frame >= 1 /\ isPaused = 0
    /\ frame % ball.xVelocity = 0 /\ frame % ball.yVelocity = 0
    /\ ball.x \in 2 .. (WIDTH - 3)
    /\ ball.y \in (maxBlockYOf(level) + 1) .. (paddleY - 2)
    /\ board[ball.x][ball.y] = BALL
    /\ board[cellBehind[1]][cellBehind[2]] = EMPTY

\* checkBall takes its side-wall branch (line 175) in this ball step.
TakesSideBranch == BallRuns /\ ballBranch(ball, board, frame) = "side"

\* C18: the side-wall bounce is taken exactly when the candidate x is
\* outside [0, WIDTH), the candidate is not below the board and the ball is
\* not caught in a top corner; it inverts xDirection and changes nothing
\* else.  A candidate x inside the board is never handled as a side wall.
C18_SideWallIffOutside ==
    /\ [](TakesSideBranch => candidate[1] \notin Cols)
    /\ []((BallRuns /\ candidate[1] \notin Cols /\ candidate[2] < HEIGHT
              /\ ~InCornerGoingOut) => TakesSideBranch)
    /\ [][TakesSideBranch =>
            /\ ball' = [ball EXCEPT !.xDirection = -ball.xDirection]
            /\ UNCHANGED <<board, score, blocksLeft>>]_vars

\* C19: a step of a frame that begins paused changes neither the ball, the
\* score, the lives, the remaining-block counter nor the paddle's
\* direction, whatever key is polled (j / k included), and while the pause
\* lasts the board and the paddle stay as they are; so when the pause key
\* ends the pause, play goes on from the state it was paused in.
C19_PausedChangesNothing ==
    [][(InPlay /\ isPaused = 1) =>
          /\ UNCHANGED <<ball, score, lives, blocksLeft>>
          /\ paddle'.direction = paddle.direction
          /\ isPaused' = 1 => (board' = board /\ paddle' = paddle)]_vars

\* A life starts: the life loop's test passed and the reset of lines
\* 469-493 ran.
LifeBegins == pc = "life" /\ pc' = "input"

\* C20: the start of a life, first or later, puts the ball at the centred
\* start cell with both periods in 6 .. 15, xDirection -1 or +1 and
\* yDirection -1; the paddle is centred at (WIDTH - len) / 2 with direction
\* 0 and its row holds exactly the paddle's span; the Block tiles, the
\* remaining-block counter, the score and the level are as before.
C20_LifeReset ==
    [][LifeBegins =>
          /\ ball'.x = WIDTH \div 2
          /\ ball'.y = (maxBlockYOf(level) + paddleY) \div 2
          /\ ball'.xVelocity \in 6 .. 15
          /\ ball'.yVelocity \in 6 .. 15
          /\ ball'.xDirection \in {-1, 1}
          /\ ball'.yDirection = -1
          /\ paddle'.len = paddle.len
          /\ paddle'.x = (WIDTH - paddle.len) \div 2
          /\ paddle'.y = paddleY
          /\ paddle'.direction = 0
          /\ \A x \in Cols :
                board'[x][paddleY] =
                    IF x >= paddle'.x /\ x < paddle'.x + paddle'.len
                        THEN PADDLE ELSE EMPTY
          /\ tilesOf(board', {PADDLE}) =
                 {<<x, paddleY>> : x \in paddle'.x .. (paddle'.x + paddle'.len - 1)}
          /\ \A c \in Cols \X Rows :
                (board[c[1]][c[2]] \in Blocks \/ board'[c[1]][c[2]] \in Blocks)
                    => board'[c[1]][c[2]] = board[c[1]][c[2]]
          /\ UNCHANGED <<blocksLeft, score, level, lives>>]_vars

\* A later life of a level has just started: the last call of checkBall
\* returned 0, no frame has run since, and pairs of the level are gone.
C20_Witness ==
    /\ pc = "input" /\ frame = 0 /\ ret = 0 /\ ticks >= 1
    /\ blocksLeft < Cardinality(allPairs(level))

\* C21: in every state of play the ball is inside the board, each of its
\* directions is -1 or +1 and each of its periods is in 5 .. 15, so
\* frame % xVelocity and frame % yVelocity never divide by zero.
C21_BallInRange ==
    InPlay =>
        /\ ball.x >= 0 /\ ball.x < WIDTH
        /\ ball.y >= 0 /\ ball.y < HEIGHT
        /\ ball.xDirection \in {-1, 1}
        /\ ball.yDirection \in {-1, 1}
        /\ ball.xVelocity \in 5 .. 15
        /\ ball.yVelocity \in 5 .. 15

\* After a ball step the ball is in the row above the paddle, heading up,
\* with the shortest period a paddle bounce draws on x (5, the low end of
\* the range) and the longest on y (12).
C21_Witness ==
    /\ pc = "input" /\ ticks >= 1
    /\ ball.xVelocity = 5 /\ ball.yVelocity = 12
    /\ ball.yDirection = -1 /\ ball.y = paddleY - 1

\* The number of pairs generateBoard places for a level.
initialBlocks(lv) == ((WIDTH - 6) \div 2) * (maxBlockYOf(lv) - 3)

\* The score at the start of a level: 0 at level 1 (main), and each level
\* before was left with its counter at 0, 10 points per unit of the counter.
RECURSIVE scoreAtLevelStart(_)
scoreAtLevelStart(lv) ==
    IF lv <= 1 THEN 0 ELSE scoreAtLevelStart(lv - 1) + 10 * initialBlocks(lv - 1)

\* Column x of board bd at level lv: its Block tiles are in the rows
\* [3, maxBlockY) and the columns [3, WIDTH - 3], and in every row the two
\* cells of the pair that covers column x (first cell at an odd column of
\* [3, WIDTH - 3)) are both Block tiles of one colour (equal tiles: the
\* tiles of one draw, of one colour whatever the draws come out as) or
\* both not Block tiles.
columnWhole(bd, lv, x) ==
    \A y \in Rows :
        /\ bd[x][y] \in Blocks =>
              /\ x >= 3 /\ x <= WIDTH - 3
              /\ y >= 3 /\ y < maxBlockYOf(lv)
        /\ pairStart(x) # -1 =>
              \/ /\ bd[pairStart(x)][y] \in Blocks
                 /\ bd[pairStart(x) + 1][y] = bd[pairStart(x)][y]
              \/ /\ bd[pairStart(x)][y] \notin Blocks
                 /\ bd[pairStart(x) + 1][y] \notin Blocks

\* No pair of the board is half-destroyed and no Block tile is out of place.
PairsWhole == \A x \in Cols : columnWhole(board, level, x)

\* C22: within a level, for every odd x in [3, WIDTH - 3) and every row the
\* cells (x, y) and (x + 1, y) are both Block tiles of one colour or both
\* not Block tiles; no Block tile is outside the rows [3, maxBlockY) and
\* the columns [3, WIDTH - 3]; the score is the score at the start of the
\* level plus 10 per unit the counter has dropped, and it never decreases.
\* PairsWhole is stated where a run begins and for every column a step
\* writes to (all columns when a level is set up), which gives it in every
\* state within a level.
C22_PairsWholeAndScore ==
    /\ []((InLevel /\ ticks = 0) => PairsWhole)
    /\ [][InLevel' =>
            \A x \in Cols :
                (board'[x] # board[x] \/ pc = "main")
                    => columnWhole(board', level', x)]_vars
    /\ [](InLevel =>
            score - scoreAtLevelStart(level) =
                10 * (initialBlocks(level) - blocksLeft))
    /\ [][InLevel => score' - score = 10 * (blocksLeft - blocksLeft')]_vars
    /\ [][score' >= score]_vars

\* Later in a level, after a ball step whose destroyBlock took a unit from
\* the counter without taking a pair from the board (the hit of a lost
\* ball's tile): the counter is one below the pairs on the board.
C22_Witness ==
    /\ pc = "input" /\ ticks >= 1 /\ frame >= 1
    /\ blocksLeft = Cardinality(pairsOnBoard) - 1
    /\ score > scoreAtLevelStart(level)
====
